---------------------------- MODULE Spec2Model ----------------------------
(***************************************************************************)
(* A model of the budget tracker's core: the QFX (OFX tag soup) and CSV    *)
(* parsers with parseFile in front of them, the categorization engine and  *)
(* the application reducer.                                                *)
(*                                                                         *)
(* Text is a sequence of symbols.  A symbol is one character where the     *)
(* code looks at characters ("<", ">", "/", digits, "-", ".", ",", "[",    *)
(* whitespace) and otherwise stands for a run of characters the code never *)
(* looks into (a tag name such as "STMTTRN", a merchant word such as "X"). *)
(* Amounts are integers counting hundredths.                               *)
(***************************************************************************)
EXTENDS Integers, Sequences, FiniteSets, TLC

VARIABLES
    rIn,        \* tag-soup repair: the fragment handed to convertOFXToXML
    rOut,       \* tag-soup repair: what convertOFXToXML returned
    scan,       \* tag-soup repair: a run of convertOFXToXML, turn by turn
    pFile,      \* parsing: the File handed to parseFile
    pResult,    \* parsing: what parseFile's promise settled with
    state,      \* the application: the reducer's AppState
    last,       \* the application: the action dispatched last
    calls,      \* the application: where each call of uploadFiles stands
    engine,     \* categorization: what the CategorizationEngine was built from
    txns,       \* categorization: the caller's array of transaction objects
    call,       \* categorization: the latest call on the engine
    ledger,     \* analytics: the transactions an AnalyticsCalculator was built on
    derived     \* analytics: the latest computation and what it returned

vars == <<rIn, rOut, scan, pFile, pResult, state, last, calls, engine, txns, call,
          ledger, derived>>

repairVars == <<rIn, rOut, scan>>
parseVars == <<pFile, pResult>>
appVars == <<state, last>>
uploadVars == <<calls>>
engineVars == <<engine, txns, call>>
analyticsVars == <<ledger, derived>>

(***************************************************************************)
(* Bounds of the model.                                                    *)
(***************************************************************************)
MaxLeaves == 2      \* leaf tags in one inner container of a repair fragment
MaxItems == 2       \* children of a repair fragment's root container
MaxTxn == 2         \* STMTTRN markers in a QFX file
MaxRows == 2        \* data rows in a CSV file
MaxBatch == 2       \* files in one call of uploadFiles
MaxSteps == 4       \* dispatches in one session of the application
MaxPatterns == 1    \* patterns of the first category of an engine
MaxRules == 2       \* legacy rules of an engine
MaxCalls == 2       \* calls of batchCategorize on one array
MaxLedger == 3      \* transactions of the first merchant in a ledger
MaxDispatches == 5  \* dispatches to the reducer in one session
MaxPieces == 4      \* tags and runs of content in a text handed to a scan
MaxUploads == 2     \* calls of uploadFiles in one session

(***************************************************************************)
(* Text helpers (String.prototype methods the code calls).                 *)
(***************************************************************************)
\* A number is [nan, v]; NaN is the one with nan set.
NaN == [nan |-> TRUE, v |-> 0]
Num(v) == [nan |-> FALSE, v |-> v]
isNaN(x) == x.nan

SeqsUpTo(S, n) == UNION {[1..k -> S] : k \in 0..n}

RECURSIVE Flatten(_)
Flatten(ss) == IF ss = <<>> THEN <<>> ELSE Head(ss) \o Flatten(Tail(ss))

\* s.substring(a, b) with 0-based a (inclusive) and b (exclusive), clamped.
Substring(s, a, b) ==
    LET lo == IF a > Len(s) THEN Len(s) ELSE a
        hi == IF b > Len(s) THEN Len(s) ELSE b
    IN  IF hi <= lo THEN <<>> ELSE SubSeq(s, lo + 1, hi)

\* s.indexOf(c, from), 0-based, -1 when absent.
IndexOf(s, c, from) ==
    LET hits == {i \in from..(Len(s) - 1) : s[i + 1] = c}
    IN  IF hits = {} THEN -1 ELSE CHOOSE i \in hits : \A j \in hits : i <= j

StartsWith(s, p) == Len(s) >= Len(p) /\ SubSeq(s, 1, Len(p)) = p

\* s.indexOf(sub) for a text sub, 0-based, -1 when absent.
IndexOfText(s, sub, from) ==
    LET hits == {i \in from..(Len(s) - Len(sub)) :
                    SubSeq(s, i + 1, i + Len(sub)) = sub}
    IN  IF hits = {} THEN -1 ELSE CHOOSE i \in hits : \A j \in hits : i <= j

Includes(s, sub) == IndexOfText(s, sub, 0) # -1

Whitespace == {" ", "\n"}

(***************************************************************************)
(* convertOFXToXML: the tag-soup repair.                                   *)
(***************************************************************************)
Tag(name) == <<"<">> \o name \o <<">">>
EndTag(name) == <<"<", "/">> \o name \o <<">">>

containerTags ==
    { <<n>> : n \in {"OFX", "SIGNONMSGSRSV1", "SONRS", "STATUS", "FI",
                     "BANKMSGSRSV1", "STMTTRNRS", "STMTRS", "BANKACCTFROM",
                     "BANKTRANLIST", "STMTTRN", "LEDGERBAL", "AVAILBAL",
                     "CREDITCARDMSGSRSV1", "CCSTMTTRNRS", "CCSTMTRS",
                     "CCACCTFROM"} }

\* The closing-tag branch: pop until the named tag is found, closing every
\* popped non-container tag, then close the named tag.
RECURSIVE CloseTagStep(_, _, _)
CloseTagStep(tagStack, result, tagName) ==
    IF tagStack = <<>> THEN [tagStack |-> tagStack, result |-> result]
    ELSE LET openTag == tagStack[Len(tagStack)]
             popped == SubSeq(tagStack, 1, Len(tagStack) - 1)
             r1 == IF openTag \notin containerTags
                   THEN result \o EndTag(openTag) ELSE result
         IN  IF openTag = tagName
             THEN [tagStack |-> popped, result |-> r1 \o EndTag(tagName)]
             ELSE CloseTagStep(popped, r1, tagName)

\* The opening-tag branch without its leaf auto-close.
OpenTagStepNoAutoClose(tagStack, result, tagName) ==
    [tagStack |-> Append(tagStack, tagName), result |-> result \o Tag(tagName)]

\* The opening-tag branch: close the leaf on top of the stack, then push.
OpenTagStep(tagStack, result, tagName) ==
    IF tagStack # <<>> /\ tagStack[Len(tagStack)] \notin containerTags
    THEN [tagStack |-> Append(SubSeq(tagStack, 1, Len(tagStack) - 1), tagName),
          result |-> result \o EndTag(tagStack[Len(tagStack)]) \o Tag(tagName)]
    ELSE [tagStack |-> Append(tagStack, tagName),
          result |-> result \o Tag(tagName)]

\* The loop after the scan: close what is still open, innermost first.
RECURSIVE CloseRemaining(_, _)
CloseRemaining(tagStack, result) ==
    IF tagStack = <<>> THEN result
    ELSE CloseRemaining(SubSeq(tagStack, 1, Len(tagStack) - 1),
                        result \o EndTag(tagStack[Len(tagStack)]))

\* One turn of the scan loop at 0-based position s.i < Len(sgml); the turns
\* that push the characters up to the next "<" are taken together, and the
\* break on a tag left unterminated is a state at the end of the text.
ScanStep(sgml, s) ==
    IF sgml[s.i + 1] = "<"
    THEN LET tagEnd == IndexOf(sgml, ">", s.i)
             tagContent == Substring(sgml, s.i + 1, tagEnd)
             Stepped(st) ==
                 [i |-> tagEnd + 1, tagStack |-> st.tagStack, result |-> st.result]
         IN  IF tagEnd = -1 THEN [s EXCEPT !.i = Len(sgml)]
             ELSE IF StartsWith(tagContent, <<"/">>)
             THEN Stepped(CloseTagStep(s.tagStack, s.result, Tail(tagContent)))
             ELSE Stepped(OpenTagStep(s.tagStack, s.result, tagContent))
    ELSE LET nextTag == IndexOf(sgml, "<", s.i)
             stop == IF nextTag = -1 THEN Len(sgml) ELSE nextTag
         IN  [s EXCEPT !.i = stop, !.result = @ \o Substring(sgml, s.i, stop)]

\* Up to k turns of the scan loop, as two runs of half as many turns.
RECURSIVE ScanSteps(_, _, _)
ScanSteps(sgml, s, k) ==
    LET Rest(half) == IF half.i >= Len(sgml) THEN half
                      ELSE ScanSteps(sgml, half, k - (k \div 2))
    IN  IF k = 1 THEN ScanStep(sgml, s) ELSE Rest(ScanSteps(sgml, s, k \div 2))

\* The scan loop from 0-based position i, then the closing loop.
ConvertFrom(sgml, i, tagStack, result) ==
    LET Closed(s) == CloseRemaining(s.tagStack, s.result)
    IN  IF i >= Len(sgml) THEN CloseRemaining(tagStack, result)
        ELSE Closed(ScanSteps(sgml, [i |-> i, tagStack |-> tagStack,
                                     result |-> result], Len(sgml) - i))

convertOFXToXML(sgml) == ConvertFrom(sgml, 0, <<>>, <<>>)

(***************************************************************************)
(* DOMParser.parseFromString(xml, 'text/xml') and the DOM queries parseQFX *)
(* makes on the document.  A document is the token sequence of the markup, *)
(* or a parsererror document when the markup is not well-formed: a tag     *)
(* left unterminated or unnamed, a closing tag that does not match the     *)
(* innermost open element, an element left open, more or less than one     *)
(* root element, or text other than whitespace outside the root.           *)
(***************************************************************************)
\* The token read at 0-based position s.i < Len(xml), appended.
TokenStep(xml, s) ==
    IF xml[s.i + 1] = "<"
    THEN LET tagEnd == IndexOf(xml, ">", s.i)
             content == Substring(xml, s.i + 1, tagEnd)
         IN  IF tagEnd = -1 \/ content = <<>> \/ content = <<"/">>
             THEN [i |-> Len(xml), error |-> TRUE, toks |-> <<>>]
             ELSE [s EXCEPT !.i = tagEnd + 1,
                            !.toks = Append(@, IF Head(content) = "/"
                                               THEN [k |-> "close", n |-> Tail(content)]
                                               ELSE [k |-> "open", n |-> content])]
    ELSE LET nextTag == IndexOf(xml, "<", s.i)
             stop == IF nextTag = -1 THEN Len(xml) ELSE nextTag
         IN  [s EXCEPT !.i = stop,
                       !.toks = Append(@, [k |-> "text", n |-> Substring(xml, s.i, stop)])]

\* Up to k tokens, as two runs of half as many.
RECURSIVE TokenSteps(_, _, _)
TokenSteps(xml, s, k) ==
    LET Rest(half) == IF half.i >= Len(xml) THEN half
                      ELSE TokenSteps(xml, half, k - (k \div 2))
    IN  IF k = 1 THEN TokenStep(xml, s) ELSE Rest(TokenSteps(xml, s, k \div 2))

\* The tokens of the markup from 0-based position i on.
XmlTokens(xml, i) ==
    LET Read(s) == [error |-> s.error, toks |-> s.toks]
    IN  IF i >= Len(xml) THEN [error |-> FALSE, toks |-> <<>>]
        ELSE Read(TokenSteps(xml, [i |-> i, error |-> FALSE, toks |-> <<>>],
                             Len(xml) - i))

\* The token at s.i taken into the nesting: the names of the open elements,
\* the number of root elements, and whether the markup is well-formed so far.
NestStep(toks, s) ==
    LET t == toks[s.i]
    IN  CASE t.k = "open" ->
               [i |-> s.i + 1,
                ok |-> s.open # <<>> \/ s.roots = 0,
                open |-> Append(s.open, t.n),
                roots |-> IF s.open = <<>> THEN s.roots + 1 ELSE s.roots]
          [] t.k = "close" ->
               [i |-> s.i + 1,
                ok |-> s.open # <<>> /\ s.open[Len(s.open)] = t.n,
                open |-> SubSeq(s.open, 1, Len(s.open) - 1),
                roots |-> s.roots]
          [] OTHER ->
               [s EXCEPT !.i = @ + 1,
                         !.ok = s.open # <<>>
                                \/ \A c \in 1..Len(t.n) : t.n[c] \in Whitespace]

\* Up to k tokens taken into the nesting, as two runs of half as many.
RECURSIVE NestSteps(_, _, _)
NestSteps(toks, s, k) ==
    LET Rest(half) == IF ~half.ok \/ half.i > Len(toks) THEN half
                      ELSE NestSteps(toks, half, k - (k \div 2))
    IN  IF k = 1 THEN NestStep(toks, s) ELSE Rest(NestSteps(toks, s, k \div 2))

\* The tokens from the i-th on are well-formed inside the open elements.
Nested(toks, i, open, roots) ==
    LET Ended(s) == s.ok /\ s.open = <<>> /\ s.roots = 1
    IN  IF i > Len(toks) THEN open = <<>> /\ roots = 1
        ELSE Ended(NestSteps(toks, [i |-> i, ok |-> TRUE, open |-> open,
                                    roots |-> roots], Len(toks) - i + 1))

parseFromString(xml) ==
    LET Document(t) ==
            IF t.error \/ ~Nested(t.toks, 1, <<>>, 0)
            THEN [parsererror |-> TRUE, toks |-> <<>>]
            ELSE [parsererror |-> FALSE, toks |-> t.toks]
    IN  Document(XmlTokens(xml, 0))

\* The closing token of the element opened at token a.
MatchingClose(toks, a) ==
    LET Opens(j) == Cardinality({i \in (a + 1)..(j - 1) : toks[i].k = "open"})
        Closes(j) == Cardinality({i \in (a + 1)..(j - 1) : toks[i].k = "close"})
        cands == {j \in (a + 1)..Len(toks) :
                     toks[j].k = "close" /\ Opens(j) = Closes(j)}
    IN  CHOOSE j \in cands : \A h \in cands : j <= h

\* element.textContent: the text of the element and of all its descendants.
RECURSIVE TextBetween(_, _, _)
TextBetween(toks, i, b) ==
    IF i >= b THEN <<>>
    ELSE IF b = i + 1 THEN (IF toks[i].k = "text" THEN toks[i].n ELSE <<>>)
    ELSE TextBetween(toks, i, (i + b) \div 2) \o TextBetween(toks, (i + b) \div 2, b)

textContent(toks, a) == TextBetween(toks, a + 1, MatchingClose(toks, a))

\* The opening tokens of the elements named name inside the element opened
\* at token a (a = 0: in the whole document), in document order.
ElementsIn(toks, a, name) ==
    LET hi == IF a = 0 THEN Len(toks) + 1 ELSE MatchingClose(toks, a)
    IN  {i \in (a + 1)..(hi - 1) : toks[i].k = "open" /\ toks[i].n = name}

Min(S) == CHOOSE x \in S : \A y \in S : x <= y

RECURSIVE SortedSeq(_)
SortedSeq(S) == IF S = {} THEN <<>> ELSE <<Min(S)>> \o SortedSeq(S \ {Min(S)})

\* scope.querySelector(name)?.textContent || dflt
QueryText(toks, a, name, dflt) ==
    LET els == ElementsIn(toks, a, name)
    IN  IF els = {} THEN dflt
        ELSE IF textContent(toks, Min(els)) = <<>> THEN dflt
        ELSE textContent(toks, Min(els))

\* doc.querySelector('outer inner')?.textContent || dflt
QueryNestedText(toks, outer, inner, dflt) ==
    LET els == UNION {ElementsIn(toks, o, inner) : o \in ElementsIn(toks, 0, outer)}
    IN  IF els = {} THEN dflt
        ELSE IF textContent(toks, Min(els)) = <<>> THEN dflt
        ELSE textContent(toks, Min(els))

(***************************************************************************)
(* Tag-soup fragments: a root container holding leaf tags and inner        *)
(* containers of leaf tags.  A fragment is written as tag soup (no leaf    *)
(* has a closing tag) or fully closed (every leaf is closed right after    *)
(* its value).                                                             *)
(***************************************************************************)
Leaf(n, v) == [k |-> "leaf", n |-> <<n>>, v |-> v, c |-> <<>>]
Node(n, c) == [k |-> "node", n |-> <<n>>, v |-> <<>>, c |-> c]

FragmentLeaves == {Leaf("NAME", <<"x">>), Leaf("MEMO", <<"y">>)}
FragmentInner ==
    {Node("STMTTRN", c) : c \in SeqsUpTo(FragmentLeaves, MaxLeaves)}
    \cup {Node("STMTTRN", <<Leaf("NAME", <<>>), Leaf("MEMO", <<"y">>)>>)}
Fragments == {Node("OFX", c) : c \in SeqsUpTo(FragmentLeaves \cup FragmentInner, MaxItems)}

RECURSIVE Render(_, _)
Render(item, closed) ==
    IF item.k = "leaf"
    THEN Tag(item.n) \o item.v \o (IF closed THEN EndTag(item.n) ELSE <<>>)
    ELSE Tag(item.n)
         \o Flatten([i \in 1..Len(item.c) |-> Render(item.c[i], closed)])
         \o EndTag(item.n)

\* What parseQFX would read from a document: per STMTTRN element its NAME
\* and MEMO, and the document's first NAME and MEMO.
ExtractedFields(doc) ==
    [trn |-> [i \in 1..Cardinality(ElementsIn(doc.toks, 0, <<"STMTTRN">>)) |->
                LET el == SortedSeq(ElementsIn(doc.toks, 0, <<"STMTTRN">>))[i]
                IN  [name |-> QueryText(doc.toks, el, <<"NAME">>, <<"Unknown">>),
                     memo |-> QueryText(doc.toks, el, <<"MEMO">>, <<>>)]],
     name |-> QueryText(doc.toks, 0, <<"NAME">>, <<"Unknown">>),
     memo |-> QueryText(doc.toks, 0, <<"MEMO">>, <<>>)]

(***************************************************************************)
(* Idle values: what a part of the model holds while another part runs.    *)
(***************************************************************************)
NoFragment == [tree |-> Node("OFX", <<>>), form |-> "none", sgml |-> <<>>]
NoOutput == [done |-> FALSE, xml |-> <<>>]
NoScan == [at |-> "idle", i |-> 0, tagStack |-> <<>>, result |-> <<>>,
           unclosed |-> <<>>]
NoCalls == <<>>

(***************************************************************************)
(* The fragments handed to convertOFXToXML, as tag soup and fully closed.  *)
(***************************************************************************)
RepairInputs ==
    {[tree |-> t, form |-> f, sgml |-> Render(t, f = "closed")] :
        t \in Fragments, f \in {"soup", "closed"}}

Repair ==
    /\ ~rOut.done
    /\ rOut' = [done |-> TRUE, xml |-> convertOFXToXML(rIn.sgml)]
    /\ UNCHANGED <<rIn, scan, parseVars, appVars, uploadVars, engineVars, analyticsVars>>

(***************************************************************************)
(* A run of convertOFXToXML followed turn by turn, on texts put together   *)
(* from up to MaxPieces pieces: opening and closing tags of containers and *)
(* leaves, a closing tag of a name never opened, content, and a tag left   *)
(* unterminated.                                                           *)
(***************************************************************************)
ScanPieces ==
    {Tag(<<"OFX">>), Tag(<<"STMTTRN">>), Tag(<<"NAME">>), <<"x">>,
     EndTag(<<"NAME">>), EndTag(<<"STMTTRN">>), EndTag(<<"OFX">>),
     EndTag(<<"MEMO">>), <<"<", "NAME">>}

ScanInputs ==
    {[tree |-> Node("OFX", <<>>), form |-> "pieces", sgml |-> Flatten(pieces)] :
        pieces \in SeqsUpTo(ScanPieces, MaxPieces)}

\* The names of the closing tag at 0-based position i: one, or none when
\* what is there is not a closing tag.
ClosingTagAt(sgml, i) ==
    LET tagEnd == IndexOf(sgml, ">", i)
        tagContent == Substring(sgml, i + 1, tagEnd)
    IN  IF sgml[i + 1] = "<" /\ tagEnd # -1 /\ StartsWith(tagContent, <<"/">>)
        THEN {Tail(tagContent)} ELSE {}

\* The containers that the closing-tag branch pops for tagName without
\* pushing a closing tag: those above the topmost tagName, or all of them
\* when the stack has no tagName.
PoppedUnclosed(tagStack, tagName) ==
    LET matches == {k \in 1..Len(tagStack) : tagStack[k] = tagName}
        found == IF matches = {} THEN 0
                 ELSE CHOOSE k \in matches : \A h \in matches : h <= k
    IN  SelectSeq(SubSeq(tagStack, found + 1, Len(tagStack)),
                  LAMBDA t : t \in containerTags)

\* One turn of the while loop over sgml; unclosed collects the containers
\* the turn pops without a closing tag.
ScanTurn ==
    /\ scan.at = "loop" /\ scan.i < Len(rIn.sgml)
    /\ LET turned == ScanStep(rIn.sgml, [i |-> scan.i, tagStack |-> scan.tagStack,
                                         result |-> scan.result])
       IN  scan' = [at |-> "loop", i |-> turned.i, tagStack |-> turned.tagStack,
                    result |-> turned.result,
                    unclosed |-> IF ClosingTagAt(rIn.sgml, scan.i) = {}
                                 THEN scan.unclosed
                                 ELSE scan.unclosed \o PoppedUnclosed(scan.tagStack,
                                        CHOOSE t \in ClosingTagAt(rIn.sgml, scan.i) : TRUE)]
    /\ UNCHANGED <<rIn, rOut, parseVars, appVars, uploadVars, engineVars, analyticsVars>>

\* One turn of the loop that closes the tags still open.
CloseTurn ==
    /\ scan.at = "loop" /\ scan.i >= Len(rIn.sgml)
    /\ scan.tagStack # <<>>
    /\ scan' = [scan EXCEPT
                   !.tagStack = SubSeq(@, 1, Len(@) - 1),
                   !.result = @ \o EndTag(scan.tagStack[Len(scan.tagStack)])]
    /\ UNCHANGED <<rIn, rOut, parseVars, appVars, uploadVars, engineVars, analyticsVars>>

\* return result.join('')
ReturnXml ==
    /\ scan.at = "loop" /\ scan.i >= Len(rIn.sgml)
    /\ scan.tagStack = <<>>
    /\ scan' = [scan EXCEPT !.at = "returned"]
    /\ rOut' = [done |-> TRUE, xml |-> scan.result]
    /\ UNCHANGED <<rIn, parseVars, appVars, uploadVars, engineVars, analyticsVars>>

(***************************************************************************)
(* Numbers and dates as the parsers read them.                             *)
(***************************************************************************)
DigitChars == <<"0", "1", "2", "3", "4", "5", "6", "7", "8", "9">>
IsDigit(c) == \E d \in 1..10 : DigitChars[d] = c
DigitVal(c) == (CHOOSE d \in 1..10 : DigitChars[d] = c) - 1

RECURSIVE SkipWhitespace(_)
SkipWhitespace(s) ==
    IF s # <<>> /\ Head(s) \in Whitespace THEN SkipWhitespace(Tail(s)) ELSE s

\* The longest prefix of s made of digits.
DigitPrefix(s) ==
    LET others == {i \in 1..Len(s) : ~IsDigit(s[i])}
    IN  IF others = {} THEN s ELSE SubSeq(s, 1, Min(others) - 1)

RECURSIVE DigitsValue(_, _)
DigitsValue(ds, acc) ==
    IF ds = <<>> THEN acc ELSE DigitsValue(Tail(ds), acc * 10 + DigitVal(Head(ds)))

\* parseInt(s, 10): leading whitespace, a sign, then the digits up to the
\* first other character; NaN without a digit.
parseInt(s) ==
    LET t == SkipWhitespace(s)
        neg == t # <<>> /\ Head(t) = "-"
        u == IF t # <<>> /\ Head(t) \in {"-", "+"} THEN Tail(t) ELSE t
        ds == DigitPrefix(u)
    IN  IF ds = <<>> THEN NaN
        ELSE IF neg THEN Num(0 - DigitsValue(ds, 0)) ELSE Num(DigitsValue(ds, 0))

\* parseFloat(s), in hundredths: leading whitespace, a sign, digits, and a
\* fraction after "."; reading stops at the first other character and the
\* result is NaN when no digit was read.  Fraction digits after the second
\* are below the model's resolution.
parseFloat(s) ==
    LET t == SkipWhitespace(s)
        neg == t # <<>> /\ Head(t) = "-"
        u == IF t # <<>> /\ Head(t) \in {"-", "+"} THEN Tail(t) ELSE t
        ip == DigitPrefix(u)
        afterInt == SubSeq(u, Len(ip) + 1, Len(u))
        fp == IF afterInt # <<>> /\ Head(afterInt) = "."
              THEN DigitPrefix(Tail(afterInt)) ELSE <<>>
        f2 == SubSeq(fp \o <<"0", "0">>, 1, 2)
        mag == DigitsValue(ip, 0) * 100 + DigitsValue(f2, 0)
    IN  IF ip = <<>> /\ fp = <<>> THEN NaN
        ELSE IF neg THEN Num(0 - mag) ELSE Num(mag)

\* s.replace(/,/g, '')
RemoveCommas(s) == SelectSeq(s, LAMBDA c : c # ",")

\* s.split(sep)[0]
BeforeFirst(s, sep) ==
    LET i == IndexOf(s, sep, 0)
    IN  IF i = -1 THEN s ELSE Substring(s, 0, i)

\* s.split(sep)
RECURSIVE Split(_, _)
Split(s, sep) ==
    LET i == IndexOf(s, sep, 0)
    IN  IF i = -1 THEN <<s>>
        ELSE <<Substring(s, 0, i)>> \o Split(Substring(s, i + 1, Len(s)), sep)

\* s.trim()
RECURSIVE TrimEnd(_)
TrimEnd(s) ==
    IF s # <<>> /\ s[Len(s)] \in Whitespace
    THEN TrimEnd(SubSeq(s, 1, Len(s) - 1)) ELSE s

Trim(s) == TrimEnd(SkipWhitespace(s))

IsLeapYear(y) == (y % 4 = 0 /\ y % 100 # 0) \/ y % 400 = 0

DaysInMonth(y, m) ==
    IF m = 2 THEN (IF IsLeapYear(y) THEN 29 ELSE 28)
    ELSE IF m \in {4, 6, 9, 11} THEN 30 ELSE 31

InvalidDate == [valid |-> FALSE, y |-> 0, m |-> 0, d |-> 0, zone |-> "none"]

\* new Date(`${year}-${MM}-${DD}T00:00:00.000Z`): a date-time string of the
\* ISO format with a four-digit year, a month and a day of that month is
\* that day at midnight UTC; "NaN-NaN-NaN..." and a month 13 are Invalid
\* Date.  (What an engine makes of a year of fewer than four digits, or of
\* a day 29..31 the month does not have, differs between engines; the
\* files of this model hold neither.)
DateFromISO(year, month, day) ==
    IF isNaN(year) \/ isNaN(month) \/ isNaN(day) THEN InvalidDate
    ELSE IF year.v \in 1000..9999 /\ month.v \in 1..12
            /\ day.v \in 1..DaysInMonth(year.v, month.v)
    THEN [valid |-> TRUE, y |-> year.v, m |-> month.v, d |-> day.v, zone |-> "utc"]
    ELSE InvalidDate

\* The day overflow of new Date(y, m, d): days past the end of the month
\* run into the following months, days before the first into the previous.
RECURSIVE CarryDays(_, _, _)
CarryDays(y, m, d) ==
    IF d > DaysInMonth(y, m)
    THEN CarryDays(IF m = 12 THEN y + 1 ELSE y, IF m = 12 THEN 1 ELSE m + 1,
                   d - DaysInMonth(y, m))
    ELSE IF d < 1
    THEN LET py == IF m = 1 THEN y - 1 ELSE y
             pm == IF m = 1 THEN 12 ELSE m - 1
         IN  CarryDays(py, pm, d + DaysInMonth(py, pm))
    ELSE [valid |-> TRUE, y |-> y, m |-> m, d |-> d, zone |-> "local"]

\* new Date(year, monthIndex, day): Invalid Date only for a NaN argument;
\* a year 0..99 is 1900 + year, and a month index outside 0..11 and a day
\* outside the month carry over.
DateFromParts(year, monthIndex, day) ==
    IF isNaN(year) \/ isNaN(monthIndex) \/ isNaN(day) THEN InvalidDate
    ELSE LET y0 == IF year.v \in 0..99 THEN 1900 + year.v ELSE year.v
         IN  CarryDays(y0 + (monthIndex.v \div 12), (monthIndex.v % 12) + 1, day.v)

\* qfx.ts parseOFXDate; null is InvalidDate.
parseOFXDate(dateStr) ==
    IF dateStr = <<>> THEN InvalidDate
    ELSE LET cleaned == BeforeFirst(BeforeFirst(dateStr, "["), ".")
             year == parseInt(Substring(cleaned, 0, 4))
             month == parseInt(Substring(cleaned, 4, 6))
             day == parseInt(Substring(cleaned, 6, 8))
         IN  DateFromISO(year, month, day)

\* csv.ts parseCSVDate; null is InvalidDate.
parseCSVDate(dateStr) ==
    IF dateStr = <<>> THEN InvalidDate
    ELSE LET parts == Split(dateStr, "/")
         IN  IF Len(parts) # 3 THEN InvalidDate
             ELSE LET mm == parseInt(parts[1])
                      month == IF isNaN(mm) THEN NaN ELSE Num(mm.v - 1)
                      day == parseInt(parts[2])
                      year == parseInt(parts[3])
                  IN  DateFromParts(year, month, day)

(***************************************************************************)
(* Transactions, diagnostics and the fingerprint.                          *)
(***************************************************************************)
Absent == <<>>                  \* an optional text that is undefined
NoCategory == "(undefined)"     \* categoryId: undefined
NoLine == 0 - 1                 \* ParseError.line: undefined

ParseError(line, field, message, severity) ==
    [line |-> line, field |-> field, message |-> message, severity |-> severity]

\* crypto.subtle.digest('SHA-256', key) taken as collision-free: the digest
\* stands for the key it was computed from, `${date.toISOString()}_${amount}
\* _${description}_${accountId || ''}`, kept as its four parts.
generateTransactionId(date, amount, description, accountId) ==
    [sha256 |-> [date |-> date, amount |-> amount,
                 description |-> description, accountId |-> accountId]]

\* The type a parser stores, read off the file's TRNTYPE.
TypeFromTrnType(amount, trnType) ==
    IF trnType = <<"DEBIT">> THEN "DEBIT" ELSE "CREDIT"

\* The type a parser stores: normalized from the sign of the stored amount.
NormalizedType(amount, trnType) == IF amount < 0 THEN "DEBIT" ELSE "CREDIT"

(***************************************************************************)
(* parseQFX.                                                               *)
(***************************************************************************)
OfxRoot == <<"<", "OFX", ">">>

\* extractXMLFromOFX: the markup from the root tag on, repaired; throws
\* when the file has no root tag.
extractXMLFromOFX(content) ==
    LET xmlStartIndex == IndexOfText(content, OfxRoot, 0)
    IN  IF xmlStartIndex = -1 THEN [threw |-> TRUE, xml |-> <<>>]
        ELSE [threw |-> FALSE,
              xml |-> convertOFXToXML(Substring(content, xmlStartIndex, Len(content)))]

\* decodeHTMLEntities: each entity symbol of the table is replaced, any
\* other symbol is kept.
decodeHTMLEntities(text) ==
    [i \in 1..Len(text) |->
        CASE text[i] = "&amp;" -> "&"
          [] text[i] = "&lt;" -> "<"
          [] text[i] = "&gt;" -> ">"
          [] text[i] = "&quot;" -> "\""
          [] text[i] = "&#39;" -> "'"
          [] OTHER -> text[i]]

\* One pass of the loop over the STMTTRN elements: the transaction pushed,
\* or the error pushed before `continue`.
QfxElement(toks, el, accountId, filename) ==
    LET trnType == QueryText(toks, el, <<"TRNTYPE">>, <<>>)
        dtPosted == QueryText(toks, el, <<"DTPOSTED">>, <<>>)
        trnAmt == QueryText(toks, el, <<"TRNAMT">>, <<>>)
        fitId == QueryText(toks, el, <<"FITID">>, <<>>)
        name == QueryText(toks, el, <<"NAME">>, <<"Unknown">>)
        memo == QueryText(toks, el, <<"MEMO">>, Absent)
        Element(date, amount, description) ==
            IF ~date.valid
            THEN [ok |-> FALSE,
                  error |-> ParseError(NoLine, "DTPOSTED", "Invalid date format",
                                       "error")]
            ELSE IF isNaN(amount)
            THEN [ok |-> FALSE,
                  error |-> ParseError(NoLine, "TRNAMT", "Invalid amount", "error")]
            ELSE [ok |-> TRUE,
                  txn |-> [id |-> generateTransactionId(date, amount.v, description,
                                                        accountId),
                           date |-> date,
                           description |-> description,
                           amount |-> amount.v,
                           type |-> NormalizedType(amount.v, trnType),
                           isExcluded |-> FALSE,
                           source |-> "QFX",
                           sourceFile |-> filename,
                           accountId |-> accountId,
                           transactionId |-> fitId,
                           memo |-> memo,
                           isManuallyCategorized |-> FALSE,
                           categoryId |-> NoCategory]]
    IN  Element(parseOFXDate(dtPosted), parseFloat(trnAmt), decodeHTMLEntities(name))

\* A failed element dropped with nothing pushed to errors.
QfxSkipSilent(acc, error) == acc

\* errors.push(...); continue: a failed element leaves its entry and the
\* loop goes on.
QfxSkip(acc, error) == [acc EXCEPT !.errors = Append(@, error)]

\* The loop over the STMTTRN elements from the i-th on.  origins lists, for
\* each transaction pushed, the number of the element it came from.
RECURSIVE QfxLoop(_, _, _, _, _, _)
QfxLoop(toks, els, i, accountId, filename, acc) ==
    LET Pushed(r) == IF r.ok
                     THEN [acc EXCEPT !.transactions = Append(@, r.txn),
                                      !.origins = Append(@, i)]
                     ELSE QfxSkip(acc, r.error)
    IN  IF i > Len(els) THEN acc
        ELSE QfxLoop(toks, els, i + 1, accountId, filename,
                     Pushed(QfxElement(toks, els[i], accountId, filename)))

EmptyResult == [threw |-> FALSE, transactions |-> <<>>, errors |-> <<>>, origins |-> <<>>]

\* The catch around the whole of parseQFX: one error-level entry.
QfxCaught ==
    [EmptyResult EXCEPT
        !.errors = <<ParseError(NoLine, "", "Error parsing QFX file", "error")>>]

parseQFX(content, filename) ==
    LET Summed(looped) ==
            IF looped.transactions = <<>>
            THEN [looped EXCEPT
                    !.errors = Append(@, ParseError(NoLine, "",
                                    "No valid transactions found in QFX file", "error"))]
            ELSE looped
        Looped(toks, els, acct) ==
            IF els = <<>>
            THEN [EmptyResult EXCEPT
                    !.errors = <<ParseError(NoLine, "",
                                    "No transactions found in QFX file", "warning")>>]
            ELSE Summed(QfxLoop(toks, els, 1, acct, filename, EmptyResult))
        Queried(doc) ==
            IF doc.parsererror THEN QfxCaught
            ELSE Looped(doc.toks,
                        SortedSeq(ElementsIn(doc.toks, 0, <<"STMTTRN">>)),
                        QueryNestedText(doc.toks, <<"BANKACCTFROM">>, <<"ACCTID">>,
                            QueryNestedText(doc.toks, <<"CCACCTFROM">>, <<"ACCTID">>,
                                            Absent)))
        Extracted(x) == IF x.threw THEN QfxCaught ELSE Queried(parseFromString(x.xml))
    IN  Extracted(extractXMLFromOFX(content))

(***************************************************************************)
(* parseCSV.  Papa.parse(content, {header: true, skipEmptyLines: true,     *)
(* transformHeader: trim}) binds each data row's fields to the trimmed     *)
(* header names, leaves a column the row does not reach undefined, and     *)
(* reports a row whose field count differs from the header's in            *)
(* results.errors with the row's 0-based index; a failure of the library   *)
(* itself goes to the error callback instead of complete.                  *)
(***************************************************************************)
StandardHeader ==
    << <<"Trans. Date">>, <<"Post Date">>, <<"Description">>, <<"Amount">>,
       <<"Category">> >>

PapaParse(csv) ==
    [fatal |-> csv.fatal,
     data |-> [i \in 1..Len(csv.rows) |->
                  [header |-> [h \in 1..Len(csv.header) |-> Trim(csv.header[h])],
                   fields |-> csv.rows[i]]],
     errors |-> SelectSeq([i \in 1..Len(csv.rows) |-> [row |-> i - 1]],
                          LAMBDA e : Len(csv.rows[e.row + 1]) # Len(csv.header))]

\* record[column]; undefined reads as the empty text, which the code treats
\* alike (!value, value ? ... : undefined).
Field(record, column) ==
    LET hits == {h \in 1..Len(record.header) : record.header[h] = column}
    IN  IF hits = {} THEN <<>>
        ELSE IF Min(hits) > Len(record.fields) THEN <<>>
        ELSE record.fields[Min(hits)]

\* The row number reported for data[index], without the header line.
RowLineNoHeader(index) == index + 1

\* The row number reported for data[index]: +1 for header, +1 for 0-index.
RowLine(index) == index + 2

\* The amount stored as parsed, without the sign flip.
KeepAmount(amount) == amount

\* CSV convention: positive = debit; normalized to negative = debit.
NormalizeAmount(amount) == 0 - amount

\* One pass of the loop over the data rows (index is 0-based).
CsvRow(record, index) ==
    LET transDate == Field(record, <<"Trans. Date">>)
        description == Field(record, <<"Description">>)
        amountStr == Field(record, <<"Amount">>)
        category == Field(record, <<"Category">>)
        Row(date, amount, normalizedAmount) ==
            IF ~date.valid
            THEN [ok |-> FALSE,
                  error |-> ParseError(RowLine(index), "Trans. Date",
                                       "Invalid date format", "error")]
            ELSE IF isNaN(amount)
            THEN [ok |-> FALSE,
                  error |-> ParseError(RowLine(index), "Amount", "Invalid amount",
                                       "error")]
            ELSE [ok |-> TRUE,
                  txn |-> [id |-> generateTransactionId(date, normalizedAmount,
                                                        description, Absent),
                           date |-> date,
                           description |-> Trim(description),
                           amount |-> normalizedAmount,
                           type |-> NormalizedType(normalizedAmount, <<>>),
                           isExcluded |-> FALSE,
                           source |-> "CSV",
                           sourceFile |-> Absent,
                           accountId |-> Absent,
                           transactionId |-> Absent,
                           memo |-> IF category # <<>>
                                    THEN <<"Original category: ">> \o category
                                    ELSE Absent,
                           isManuallyCategorized |-> FALSE,
                           categoryId |-> NoCategory]]
        Converted(date, amount) == Row(date, amount, NormalizeAmount(amount.v))
    IN  IF transDate = <<>> \/ description = <<>> \/ amountStr = <<>>
        THEN [ok |-> FALSE,
              error |-> ParseError(RowLine(index), "", "Missing required fields",
                                   "warning")]
        ELSE Converted(parseCSVDate(transDate), parseFloat(RemoveCommas(amountStr)))

RECURSIVE CsvLoop(_, _, _)
CsvLoop(data, i, acc) ==
    LET Pushed(r) == IF r.ok
                     THEN [acc EXCEPT !.transactions = Append(@, r.txn),
                                      !.origins = Append(@, i)]
                     ELSE [acc EXCEPT !.errors = Append(@, r.error)]
    IN  IF i > Len(data) THEN acc
        ELSE CsvLoop(data, i + 1, Pushed(CsvRow(data[i], i - 1)))

parseCSV(csv, filename) ==
    LET results == PapaParse(csv)
        parseErrors == [e \in 1..Len(results.errors) |->
                          ParseError(results.errors[e].row, "", "CSV parsing error",
                                     "error")]
        Summed(looped) ==
            IF looped.transactions = <<>> /\ Len(results.data) > 0
            THEN [looped EXCEPT
                    !.errors = Append(@, ParseError(NoLine, "",
                                    "No valid transactions found in CSV file", "error"))]
            ELSE looped
    IN  IF results.fatal
        THEN [EmptyResult EXCEPT
                !.errors = <<ParseError(NoLine, "", "Error parsing CSV file", "error")>>]
        ELSE Summed(CsvLoop(results.data, 1,
                            [EmptyResult EXCEPT !.errors = parseErrors]))

(***************************************************************************)
(* detectFormat and parseFile.  A File is [name, ext, readable, content];  *)
(* content is [kind, text, csv]: the text of a tag-soup or other file, the *)
(* header and rows of a delimited one.                                     *)
(***************************************************************************)
toLowerCase(ext) ==
    CASE ext = "QFX" -> "qfx"
      [] ext = "CSV" -> "csv"
      [] OTHER -> ext

detectFormat(file) ==
    LET lowerExt == toLowerCase(file.ext)
        content == file.content
    IN  IF lowerExt = "qfx" THEN "QFX"
        ELSE IF lowerExt = "csv" THEN "CSV"
        ELSE IF content.kind # "csv"
                /\ (StartsWith(content.text, <<"OFXHEADER:">>)
                    \/ Includes(content.text, OfxRoot))
        THEN "QFX"
        ELSE IF content.kind = "csv" /\ content.csv.header = StandardHeader
        THEN "CSV"
        ELSE "UNKNOWN"

\* The default branch of parseFile's switch, reporting nothing.
UnknownFormatSilent == EmptyResult

\* The default branch of parseFile's switch.
UnknownFormat ==
    [EmptyResult EXCEPT
        !.errors = <<ParseError(NoLine, "", "Unknown file format", "error")>>]

\* The catch around the whole of parseFile.
FileCaught ==
    [EmptyResult EXCEPT
        !.errors = <<ParseError(NoLine, "", "Error reading file", "error")>>]

parseFile(file) ==
    LET Returned(r) == IF r.threw THEN FileCaught ELSE r
        Switch(format) ==
            CASE format = "QFX" -> parseQFX(file.content.text, file.name)
              [] format = "CSV" -> parseCSV(file.content.csv, file.name)
              [] OTHER -> UnknownFormat
    IN  IF ~file.readable THEN FileCaught
        ELSE Returned(Switch(detectFormat(file)))

(***************************************************************************)
(* The files parsing is checked on.  A cell pairs the text written in the  *)
(* file with the value the text denotes.                                   *)
(***************************************************************************)
RECURSIVE DigitsOf(_)
DigitsOf(n) ==
    IF n < 10 THEN <<DigitChars[n + 1]>>
    ELSE DigitsOf(n \div 10) \o <<DigitChars[(n % 10) + 1]>>

\* Thousands separators into a digit string.
RECURSIVE Grouped(_)
Grouped(ds) ==
    IF Len(ds) <= 3 THEN ds
    ELSE Grouped(SubSeq(ds, 1, Len(ds) - 3)) \o <<",">>
         \o SubSeq(ds, Len(ds) - 2, Len(ds))

\* The decimal text of an amount of hundredths: "plain" 19.01, "grouped"
\* 1,234.56, "short" without a fraction that is zero.
FormatAmount(v, style) ==
    LET mag == IF v < 0 THEN 0 - v ELSE v
        whole == DigitsOf(mag \div 100)
        frac == <<DigitChars[((mag % 100) \div 10) + 1], DigitChars[(mag % 10) + 1]>>
    IN  (IF v < 0 THEN <<"-">> ELSE <<>>)
        \o (IF style = "grouped" THEN Grouped(whole) ELSE whole)
        \o (IF style = "short" /\ mag % 100 = 0 THEN <<>> ELSE <<".">> \o frac)

AmountCell(v, style) == [text |-> FormatAmount(v, style), value |-> Num(v)]
NotANumber == [text |-> <<"n", "/", "a">>, value |-> NaN]

Day(y, m, d, zone) == [valid |-> TRUE, y |-> y, m |-> m, d |-> d, zone |-> zone]

QfxAmountCells == {AmountCell(0 - 1901, "plain"), AmountCell(500, "short"), NotANumber}

QfxDateCells ==
    { [text |-> <<"2", "0", "2", "5", "0", "1", "1", "1", "1", "2", "0", "0", "0", "0",
                  "[", "0", ":", "GMT", "]">>,
       value |-> Day(2025, 1, 11, "utc")],
      [text |-> <<"2", "0", "2", "4", "0", "2", "2", "9", "1", "2", "0", "0", "0", "0",
                  ".", "0", "0", "0">>,
       value |-> Day(2024, 2, 29, "utc")],
      [text |-> <<"2", "0", "2", "5", "1", "3", "0", "1">>, value |-> InvalidDate] }

\* The records of a statement: every TRNTYPE with every amount on one
\* date, and every date with every amount under one TRNTYPE.
QfxRecords ==
    [trnType : {<<"DEBIT">>, <<"CREDIT">>},
     date : {c \in QfxDateCells : c.value = Day(2025, 1, 11, "utc")},
     amount : QfxAmountCells \ {NotANumber}]
    \cup [trnType : {<<"DEBIT">>}, date : QfxDateCells, amount : QfxAmountCells]

\* A leaf line of the file: the tag, its value, a closing tag when the file
\* writes them, and the whitespace that ends the line.
QfxLeaf(n, v, ws, closed) ==
    Tag(<<n>>) \o v \o (IF closed THEN EndTag(<<n>>) ELSE <<>>) \o ws

QfxRecordText(r, ws, closed) ==
    Tag(<<"STMTTRN">>) \o ws
    \o QfxLeaf("TRNTYPE", r.trnType, ws, closed)
    \o QfxLeaf("DTPOSTED", r.date.text, ws, closed)
    \o QfxLeaf("TRNAMT", r.amount.text, ws, closed)
    \o QfxLeaf("NAME", <<"X">>, ws, closed)
    \o EndTag(<<"STMTTRN">>) \o ws

QfxHeader == <<"OFXHEADER:", "100", "\n">>

QfxText(recs, acct, ws, closed) ==
    QfxHeader
    \o OfxRoot \o ws
    \o (IF acct = Absent THEN <<>>
        ELSE Tag(<<"BANKACCTFROM">>) \o ws \o QfxLeaf("ACCTID", acct, ws, closed)
             \o EndTag(<<"BANKACCTFROM">>) \o ws)
    \o Tag(<<"BANKTRANLIST">>) \o ws
    \o Flatten([i \in 1..Len(recs) |-> QfxRecordText(recs[i], ws, closed)])
    \o EndTag(<<"BANKTRANLIST">>) \o ws
    \o EndTag(<<"OFX">>) \o ws

NoCsv == [header |-> <<>>, rows |-> <<>>, fatal |-> FALSE]

\* A file of statement records; layout is the whitespace after each line
\* (none, or a line break), shape is "soup", "closed" (leaves carry closing
\* tags) or "rootless" (the header alone).
QfxFile(ext, recs, acct, ws, shape) ==
    [name |-> <<"stmt">>, ext |-> ext, readable |-> TRUE,
     content |-> [kind |-> "sgml",
                  text |-> IF shape = "rootless" THEN QfxHeader
                           ELSE QfxText(recs, acct, ws, shape = "closed"),
                  csv |-> NoCsv],
     recs |-> recs, rows |-> <<>>, acct |-> acct, ws |-> ws, shape |-> shape]

QfxFiles ==
    {QfxFile("qfx", recs, acct, ws, "soup") :
        recs \in SeqsUpTo(QfxRecords, MaxTxn), acct \in {Absent, <<"A1">>},
        ws \in {<<>>, <<"\n">>}}
    \cup {QfxFile(ext, <<r>>, Absent, <<>>, shape) :
            ext \in {"QFX", "txt"}, r \in QfxRecords,
            shape \in {"soup", "closed", "rootless"}}

CsvAmountCells ==
    {AmountCell(1901, "plain"), AmountCell(0 - 500, "plain"),
     AmountCell(123456, "grouped"), AmountCell(0, "plain"), NotANumber,
     [text |-> <<>>, value |-> NaN]}

\* calendar: the text names a day of the calendar as month/day/year.
CsvDateCells ==
    { [text |-> <<"0", "1", "/", "1", "1", "/", "2", "0", "2", "5">>, calendar |-> TRUE],
      [text |-> <<"1", "3", "/", "4", "5", "/", "2", "0", "2", "5">>, calendar |-> FALSE],
      [text |-> <<"J", "/", "1", "1", "/", "2", "0", "2", "5">>, calendar |-> FALSE],
      [text |-> <<>>, calendar |-> FALSE] }

\* A data row: five fields, or (short) the first three only.  The rows
\* take every date with two amounts, and every amount and description on
\* the calendar date.
CsvRows ==
    [date : CsvDateCells, description : {<<"X">>},
     amount : {AmountCell(0, "plain"), NotANumber}, short : {FALSE}]
    \cup [date : {d \in CsvDateCells : d.calendar}, description : {<<"X">>, <<>>},
          amount : CsvAmountCells, short : {FALSE}]
    \cup [date : {d \in CsvDateCells : d.calendar}, description : {<<"X">>},
          amount : {[text |-> <<>>, value |-> NaN]}, short : {TRUE}]

CsvFields(row) ==
    IF row.short THEN <<row.date.text, row.date.text, row.description>>
    ELSE <<row.date.text, row.date.text, row.description, row.amount.text,
           <<"Restaurants">> >>

CsvFile(ext, rows, fatal) ==
    [name |-> <<"card">>, ext |-> ext, readable |-> TRUE,
     content |-> [kind |-> "csv", text |-> <<>>,
                  csv |-> [header |-> StandardHeader,
                           rows |-> [i \in 1..Len(rows) |-> CsvFields(rows[i])],
                           fatal |-> fatal]],
     recs |-> <<>>, rows |-> rows, acct |-> Absent, ws |-> <<>>, shape |-> "csv"]

CsvFiles ==
    {CsvFile("csv", rows, FALSE) : rows \in SeqsUpTo(CsvRows, MaxRows)}
    \cup {CsvFile(ext, <<r>>, fatal) :
            ext \in {"CSV", "txt"}, r \in CsvRows, fatal \in BOOLEAN}

OtherFiles ==
    {[name |-> <<"notes">>, ext |-> "txt", readable |-> rd,
      content |-> [kind |-> "other", text |-> <<"hello">>, csv |-> NoCsv],
      recs |-> <<>>, rows |-> <<>>, acct |-> Absent, ws |-> <<>>, shape |-> "other"] :
        rd \in BOOLEAN}

Files == QfxFiles \cup CsvFiles \cup OtherFiles

NoFile == CHOOSE f \in OtherFiles : f.readable
NoResult == [done |-> FALSE, result |-> EmptyResult]

(***************************************************************************)
(* parseFile applied to the file.                                          *)
(***************************************************************************)
ParseFile ==
    /\ ~pResult.done
    /\ pResult' = [done |-> TRUE, result |-> parseFile(pFile)]
    /\ UNCHANGED <<pFile, repairVars, appVars, uploadVars, engineVars, analyticsVars>>

(***************************************************************************)
(* CategorizationEngine.  A pattern's text is a sequence of symbols: words *)
(* read literally, "|" between alternatives and "(" ")" around a group.    *)
(* new RegExp(text, 'i') throws when the parentheses do not pair up, and   *)
(* its test finds one of the alternatives anywhere in the description,     *)
(* whatever the case of the letters.                                       *)
(***************************************************************************)
toLower(c) ==
    CASE c = "X" -> "x"
      [] c = "Y" -> "y"
      [] OTHER -> c

Count(s, c) == Cardinality({i \in 1..Len(s) : s[i] = c})

\* A RegExp constructor that accepts every text.
RegExpCompilesAnything(pattern) == TRUE

RegExpCompiles(pattern) == Count(pattern, "(") = Count(pattern, ")")

Alternatives(pattern) ==
    Split(SelectSeq(pattern, LAMBDA c : c \notin {"(", ")"}), "|")

RegExpTest(pattern, description) ==
    LET lowered == [i \in 1..Len(description) |-> toLower(description[i])]
        alts == Alternatives(pattern)
    IN  \E a \in 1..Len(alts) :
            Includes(lowered, [i \in 1..Len(alts[a]) |-> toLower(alts[a][i])])

\* Array.prototype.sort((a, b) => a.priority - b.priority): stable.
RECURSIVE InsertByPriority(_, _)
InsertByPriority(sorted, item) ==
    IF sorted = <<>> THEN <<item>>
    ELSE IF sorted[Len(sorted)].priority <= item.priority THEN Append(sorted, item)
    ELSE Append(InsertByPriority(SubSeq(sorted, 1, Len(sorted) - 1), item),
                sorted[Len(sorted)])

\* The collected patterns left in the order they were collected.
DeclarationOrder(items) == items

RECURSIVE SortByPriority(_)
SortByPriority(items) ==
    IF items = <<>> THEN <<>>
    ELSE InsertByPriority(SortByPriority(SubSeq(items, 1, Len(items) - 1)),
                          items[Len(items)])

\* The category of the first item whose pattern compiles and matches.
RECURSIVE FirstMatch(_, _, _)
FirstMatch(items, description, none) ==
    IF items = <<>> THEN none
    ELSE IF RegExpCompiles(Head(items).pattern)
            /\ RegExpTest(Head(items).pattern, description)
    THEN Head(items).categoryId
    ELSE FirstMatch(Tail(items), description, none)

\* The enabled patterns of all categories, in declaration order.
EnabledPatterns(categories) ==
    Flatten([c \in 1..Len(categories) |->
        LET on == SelectSeq(categories[c].patterns, LAMBDA q : q.enabled)
        IN  [i \in 1..Len(on) |->
                [categoryId |-> categories[c].id, priority |-> on[i].priority,
                 pattern |-> on[i].pattern]]])

\* descriptionMappings.get(description): undefined without an entry.
MapGet(map, key) == IF key \in DOMAIN map THEN map[key] ELSE NoCategory

\* if (mappedCategoryId): neither undefined nor the empty string.
Truthy(categoryId) == categoryId # NoCategory /\ categoryId # ""

categorize(categories, rules, descriptionMappings, transaction) ==
    LET mappedCategoryId == MapGet(descriptionMappings, transaction.description)
        allPatterns == SortByPriority(EnabledPatterns(categories))
        legacyMatches == SelectSeq(rules, LAMBDA r : r.enabled)
        byPattern == FirstMatch(allPatterns, transaction.description, NoCategory)
    IN  IF Truthy(mappedCategoryId) THEN mappedCategoryId
        ELSE IF byPattern # NoCategory THEN byPattern
        ELSE FirstMatch(legacyMatches, transaction.description, NoCategory)

\* The loop of batchCategorize without its condition.
BatchCategorizeAll(categories, rules, descriptionMappings, transactions) ==
    [i \in 1..Len(transactions) |->
        [transactions[i] EXCEPT
            !.categoryId = categorize(categories, rules, descriptionMappings,
                                      transactions[i])]]

batchCategorize(categories, rules, descriptionMappings, transactions) ==
    [i \in 1..Len(transactions) |->
        IF ~transactions[i].isManuallyCategorized /\ ~Truthy(transactions[i].categoryId)
        THEN [transactions[i] EXCEPT
                !.categoryId = categorize(categories, rules, descriptionMappings,
                                          transactions[i])]
        ELSE transactions[i]]

(***************************************************************************)
(* The application state and its reducer (AppContext.tsx appReducer).      *)
(***************************************************************************)
Undefined == [undefined |-> TRUE]

\* object[field] || [], of a list an object may lack
OrEmpty(object, field) == IF field \in DOMAIN object THEN object[field] ELSE <<>>

\* What the reducer gives when it throws: spreading a list the preferences
\* lack is a TypeError, and no state follows the dispatch.
TypeError == [threw |-> "TypeError"]

EmptyMap == [k \in {} |-> ""]
MapSet(map, key, value) == [k \in DOMAIN map \cup {key} |-> IF k = key THEN value ELSE map[k]]
MapDelete(map, key) == [k \in DOMAIN map \ {key} |-> map[k]]

Ids(transactions) == {transactions[i].id : i \in 1..Len(transactions)}

\* utils.ts generateTransactionSignatureSync: the 32-bit string hash taken
\* as collision-free over `${date}_${amount}_${description}`.
generateTransactionSignatureSync(date, amount, description) ==
    [hash |-> [date |-> date, amount |-> amount, description |-> description]]

Signature(t) == generateTransactionSignatureSync(t.date, t.amount, t.description)

InSeq(x, seq) == \E i \in 1..Len(seq) : seq[i] = x

Pattern(text, priority, enabled) ==
    [pattern |-> text, priority |-> priority, enabled |-> enabled]

\* lib/defaults.ts getDefaultPreferences in small: categories without
\* patterns and legacy rules.  It sets neither list of exclusions.
DefaultPreferences ==
    [categories |-> << [id |-> "groceries", patterns |-> <<>>],
                       [id |-> "dining", patterns |-> <<>>] >>,
     rules |-> << [id |-> "r1", pattern |-> <<"x", "|", "z">>, categoryId |-> "dining",
                   priority |-> 10, enabled |-> TRUE] >>]

\* storage/manager.ts loadPreferences: what storage holds, with the lists
\* of exclusions it lacks set to [].
loadPreferences(stored) ==
    [field \in DOMAIN stored \cup {"excludedTransactionSignatures",
                                   "excludedRepeatedExpensePatterns"} |->
        IF field \in DOMAIN stored THEN stored[field] ELSE <<>>]

\* Preferences a user has edited: patterns on the categories.
EditedPreferences ==
    [categories |-> << [id |-> "groceries",
                        patterns |-> << Pattern(<<"x">>, 2, TRUE),
                                        Pattern(<<"y">>, 1, FALSE) >>],
                       [id |-> "dining",
                        patterns |-> << Pattern(<<"(", "x">>, 0, TRUE),
                                        Pattern(<<"x", "|", "y">>, 1, TRUE) >>] >>,
     rules |-> << [id |-> "r1", pattern |-> <<"y">>, categoryId |-> "groceries",
                   priority |-> 10, enabled |-> TRUE] >>,
     excludedTransactionSignatures |-> <<>>,
     excludedRepeatedExpensePatterns |-> <<>>]

initialState ==
    [transactions |-> <<>>,
     categories |-> <<>>,
     rules |-> <<>>,
     preferences |-> DefaultPreferences,
     excludedIds |-> {},
     excludedRepeatedExpenses |-> {},
     manualOverrides |-> EmptyMap,
     descriptionMappings |-> EmptyMap,
     isLoading |-> FALSE,
     errors |-> <<>>]

\* case 'LOAD_DATA'
LoadData(st, payload) ==
    LET signatures == OrEmpty(payload.preferences, "excludedTransactionSignatures")
        patterns == OrEmpty(payload.preferences, "excludedRepeatedExpensePatterns")
        signatureSet == {signatures[i] : i \in 1..Len(signatures)}
        withExclusions == [i \in 1..Len(payload.transactions) |->
                              [payload.transactions[i] EXCEPT
                                 !.isExcluded = Signature(payload.transactions[i])
                                                    \in signatureSet]]
    IN  [st EXCEPT
            !.transactions = withExclusions,
            !.preferences = payload.preferences,
            !.categories = payload.preferences.categories,
            !.rules = payload.preferences.rules,
            !.excludedIds = {withExclusions[i].id : i \in
                                {j \in 1..Len(withExclusions) : withExclusions[j].isExcluded}},
            !.excludedRepeatedExpenses = {patterns[i] : i \in 1..Len(patterns)},
            !.manualOverrides = payload.manualOverrides,
            !.descriptionMappings = payload.descriptionMappings,
            !.isLoading = FALSE]

\* case 'ADD_TRANSACTIONS' without the filter on existing ids.
AddTransactionsNoDedup(st, payload) ==
    [st EXCEPT !.transactions = st.transactions \o payload.transactions,
               !.errors = payload.errors]

\* case 'ADD_TRANSACTIONS'
AddTransactions(st, payload) ==
    LET existingIds == Ids(st.transactions)
        newTransactions == SelectSeq(payload.transactions,
                                     LAMBDA t : t.id \notin existingIds)
        signatures == OrEmpty(st.preferences, "excludedTransactionSignatures")
        signatureSet == {signatures[i] : i \in 1..Len(signatures)}
        withExclusions == [i \in 1..Len(newTransactions) |->
                              [newTransactions[i] EXCEPT
                                 !.isExcluded = Signature(newTransactions[i])
                                                    \in signatureSet]]
    IN  [st EXCEPT
            !.transactions = st.transactions \o withExclusions,
            !.excludedIds = st.excludedIds
                \cup {withExclusions[i].id : i \in
                        {j \in 1..Len(withExclusions) : withExclusions[j].isExcluded}},
            !.errors = payload.errors]

\* case 'CATEGORIZE_TRANSACTION'
CategorizeTransactionCase(st, payload) ==
    [st EXCEPT
        !.descriptionMappings = MapSet(@, payload.description, payload.categoryId),
        !.transactions = [i \in 1..Len(st.transactions) |->
            IF st.transactions[i].description = payload.description
            THEN [st.transactions[i] EXCEPT !.categoryId = payload.categoryId,
                                            !.isManuallyCategorized = TRUE]
            ELSE st.transactions[i]],
        !.manualOverrides = MapSet(@, payload.id, payload.categoryId)]

\* case 'RECATEGORIZE_TRANSACTIONS'
RecategorizeTransactionsCase(st, payload) ==
    [st EXCEPT
        !.transactions = [i \in 1..Len(st.transactions) |->
            LET t == st.transactions[i]
            IN  IF t.isExcluded THEN t
                ELSE IF payload.preserveManual /\ t.isManuallyCategorized THEN t
                ELSE [t EXCEPT
                        !.categoryId = categorize(st.categories, st.rules,
                                                  st.descriptionMappings, t),
                        !.isManuallyCategorized =
                            payload.preserveManual /\ t.isManuallyCategorized]]]

\* nextSignatures.splice(indexOf(signature), 1)
RemoveFirst(seq, x) ==
    LET i == CHOOSE j \in 1..Len(seq) : seq[j] = x /\ \A h \in 1..(j - 1) : seq[h] # x
    IN  SubSeq(seq, 1, i - 1) \o SubSeq(seq, i + 1, Len(seq))

\* case 'TOGGLE_EXCLUSION' without the update of excludedIds.
ToggleExclusionFlagsOnly(st, id) ==
    [st EXCEPT
        !.transactions = [i \in 1..Len(st.transactions) |->
            IF st.transactions[i].id = id
            THEN [st.transactions[i] EXCEPT !.isExcluded = ~@]
            ELSE st.transactions[i]]]

\* case 'TOGGLE_EXCLUSION'
ToggleExclusionCase(st, id) ==
    IF id \notin Ids(st.transactions) THEN st
    ELSE IF "excludedTransactionSignatures" \notin DOMAIN st.preferences THEN TypeError
    ELSE LET first == Min({i \in 1..Len(st.transactions) : st.transactions[i].id = id})
             signature == Signature(st.transactions[first])
             signatures == st.preferences.excludedTransactionSignatures
         IN  [st EXCEPT
                !.transactions = [i \in 1..Len(st.transactions) |->
                    IF st.transactions[i].id = id
                    THEN [st.transactions[i] EXCEPT !.isExcluded = ~@]
                    ELSE st.transactions[i]],
                !.excludedIds = IF id \in @ THEN @ \ {id} ELSE @ \cup {id},
                !.preferences.excludedTransactionSignatures =
                    IF InSeq(signature, signatures)
                    THEN RemoveFirst(signatures, signature)
                    ELSE Append(signatures, signature)]

\* case 'DELETE_DESCRIPTION_MAPPING'
DeleteDescriptionMappingCase(st, description) ==
    [st EXCEPT !.descriptionMappings = MapDelete(@, description)]

\* case 'CLEAR_TRANSACTIONS'
ClearTransactionsCase(st) ==
    [st EXCEPT !.transactions = <<>>, !.excludedIds = {},
               !.excludedRepeatedExpenses = {},
               !.manualOverrides = EmptyMap]

\* The affectedTransactions.forEach of TOGGLE_REPEATED_EXPENSE_EXCLUSION on
\* nextSignatures.
RECURSIVE ToggledSignatures(_, _, _)
ToggledSignatures(signatures, affected, isCurrentlyExcluded) ==
    IF affected = <<>> THEN signatures
    ELSE LET signature == Signature(Head(affected))
             found == InSeq(signature, signatures)
             next == IF isCurrentlyExcluded
                     THEN IF found THEN RemoveFirst(signatures, signature)
                          ELSE signatures
                     ELSE IF found THEN signatures
                          ELSE Append(signatures, signature)
         IN  ToggledSignatures(next, Tail(affected), isCurrentlyExcluded)

\* case 'TOGGLE_REPEATED_EXPENSE_EXCLUSION'
ToggleRepeatedExpenseExclusionCase(st, payload) ==
    LET merchantPattern == payload.merchantPattern
        transactionIds == payload.transactionIds
        isCurrentlyExcluded == merchantPattern \in st.excludedRepeatedExpenses
        patterns == OrEmpty(st.preferences, "excludedRepeatedExpensePatterns")
        affectedTransactions == SelectSeq(st.transactions,
                                          LAMBDA t : t.id \in transactionIds)
        affectedIds == Ids(affectedTransactions)
    IN  IF ~({"excludedTransactionSignatures", "excludedRepeatedExpensePatterns"}
                 \subseteq DOMAIN st.preferences)
        THEN TypeError
        ELSE [st EXCEPT
                !.transactions = [i \in 1..Len(st.transactions) |->
                    IF st.transactions[i].id \in transactionIds
                    THEN [st.transactions[i] EXCEPT !.isExcluded = ~isCurrentlyExcluded]
                    ELSE st.transactions[i]],
                !.excludedIds = IF isCurrentlyExcluded THEN @ \ affectedIds
                                ELSE @ \cup affectedIds,
                !.excludedRepeatedExpenses =
                    IF isCurrentlyExcluded THEN @ \ {merchantPattern}
                    ELSE @ \cup {merchantPattern},
                !.preferences.excludedTransactionSignatures =
                    ToggledSignatures(@, affectedTransactions, isCurrentlyExcluded),
                !.preferences.excludedRepeatedExpensePatterns =
                    IF isCurrentlyExcluded
                    THEN IF InSeq(merchantPattern, patterns)
                         THEN RemoveFirst(patterns, merchantPattern) ELSE patterns
                    ELSE IF InSeq(merchantPattern, patterns) THEN patterns
                         ELSE Append(patterns, merchantPattern)]

\* case 'ADD_CATEGORY'
AddCategoryCase(st, category) ==
    [st EXCEPT !.categories = Append(@, category),
               !.preferences.categories = Append(@, category)]

\* case 'UPDATE_CATEGORY'
UpdateCategoryCase(st, category) ==
    LET updatedCategories == [i \in 1..Len(st.categories) |->
            IF st.categories[i].id = category.id THEN category ELSE st.categories[i]]
    IN  [st EXCEPT !.categories = updatedCategories,
                   !.preferences.categories = updatedCategories]

\* case 'DELETE_CATEGORY'
DeleteCategoryCase(st, id) ==
    [st EXCEPT !.categories = SelectSeq(@, LAMBDA c : c.id # id),
               !.preferences.categories = SelectSeq(@, LAMBDA c : c.id # id)]

\* case 'ADD_PATTERN'
AddPatternCase(st, payload) ==
    LET updatedCategoriesAdd == [i \in 1..Len(st.categories) |->
            IF st.categories[i].id = payload.categoryId
            THEN [st.categories[i] EXCEPT !.patterns = Append(@, payload.pattern)]
            ELSE st.categories[i]]
    IN  [st EXCEPT !.categories = updatedCategoriesAdd,
                   !.preferences.categories = updatedCategoriesAdd]

\* case 'ADD_RULE'
AddRuleCase(st, rule) ==
    [st EXCEPT !.rules = Append(@, rule),
               !.preferences.rules = Append(@, rule)]

\* case 'DELETE_RULE'
DeleteRuleCase(st, id) ==
    [st EXCEPT !.rules = SelectSeq(@, LAMBDA r : r.id # id),
               !.preferences.rules = SelectSeq(@, LAMBDA r : r.id # id)]

\* case 'IMPORT_PREFERENCES'
ImportPreferencesCase(st, preferences) ==
    [st EXCEPT !.preferences = preferences,
               !.categories = preferences.categories,
               !.rules = preferences.rules]

\* case 'CLEAR_ALL'
ClearAllCase(st) == initialState

\* case 'ADD_ERROR', once per message
AddErrors(st, messages) == [st EXCEPT !.errors = @ \o messages]

\* parsers/index.ts parseFiles: the files' results, concatenated.
RECURSIVE parseFiles(_)
parseFiles(files) ==
    LET Merged(result, rest) ==
            [threw |-> FALSE,
             transactions |-> result.transactions \o rest.transactions,
             errors |-> result.errors \o rest.errors,
             origins |-> <<>>]
    IN  IF files = <<>> THEN EmptyResult
        ELSE Merged(parseFile(Head(files)), parseFiles(Tail(files)))

\* actions.uploadFiles up to its await: SET_LOADING true and CLEAR_ERRORS.
UploadFilesStarted(st) == [st EXCEPT !.isLoading = TRUE, !.errors = <<>>]

\* What the try block of uploadFiles leaves when it throws.
Rejected == [EmptyResult EXCEPT !.threw = TRUE]

\* actions.uploadFiles from the point where parseFiles has settled, to
\* SET_LOADING false: st is the state the dispatches meet, captured the
\* state the call's closure holds, result what parseFiles resolved with or
\* Rejected.
UploadFilesSettled(st, captured, result) ==
    LET messages == [i \in 1..Len(result.errors) |-> result.errors[i].message]
        reported == AddErrors(st, messages)
        batch == batchCategorize(captured.categories, captured.rules,
                                 captured.descriptionMappings, result.transactions)
        added == IF Len(result.transactions) > 0
                 THEN AddTransactions(reported, [transactions |-> batch,
                                                 errors |-> messages])
                 ELSE reported
        caught == AddErrors(st, <<"Unknown error during file upload">>)
    IN  [(IF result.threw THEN caught ELSE added) EXCEPT !.isLoading = FALSE]

\* actions.uploadFiles with nothing dispatched between its two halves.
UploadFiles(st, result) == UploadFilesSettled(UploadFilesStarted(st), st, result)

\* The provider's effect on mount: what storage holds, with the manual
\* overrides applied, dispatched as LOAD_DATA.
LoadEffect(st, stored) ==
    LoadData(st,
        [transactions |-> [i \in 1..Len(stored.transactions) |->
            LET t == stored.transactions[i]
                override == MapGet(stored.manualOverrides, t.id)
            IN  [t EXCEPT !.categoryId = IF Truthy(override) THEN override ELSE @,
                          !.isManuallyCategorized = t.id \in DOMAIN stored.manualOverrides]],
         preferences |-> stored.preferences,
         manualOverrides |-> stored.manualOverrides,
         descriptionMappings |-> stored.descriptionMappings])

(***************************************************************************)
(* What the application is checked on: the files a user uploads and what   *)
(* storage holds when the page opens.                                      *)
(***************************************************************************)
CalendarDay == CHOOSE d \in CsvDateCells : d.calendar

CardRow(description, amount) ==
    [date |-> CalendarDay, description |-> description,
     amount |-> AmountCell(amount, "plain"), short |-> FALSE]

StatementRecord ==
    CHOOSE r \in QfxRecords :
        r.trnType = <<"DEBIT">> /\ r.date.value = Day(2025, 1, 11, "utc")
        /\ r.amount = AmountCell(0 - 1901, "plain")

AppFiles ==
    { CsvFile("csv", <<CardRow(<<"X">>, 1901), CardRow(<<"Y">>, 0 - 500)>>, FALSE),
      QfxFile("qfx", <<StatementRecord>>, <<"A1">>, <<>>, "soup"),
      NoFile }

StoredData ==
    [transactions : {<<>>},
     preferences : {DefaultPreferences, loadPreferences(DefaultPreferences),
                    EditedPreferences},
     manualOverrides : {EmptyMap},
     descriptionMappings : {EmptyMap}]

CategoryIds(categories) == {categories[i].id : i \in 1..Len(categories)}

\* The values of the category <select> of a transaction row.
SelectOptions(st) == CategoryIds(st.categories) \cup {""}

(***************************************************************************)
(* Number arithmetic as the analytics use it.  A Number is an IEEE 754      *)
(* double: a sign, a mantissa m of 53 bits (2^52 <= m < 2^53) and an        *)
(* exponent e, with value m * 2^e; zero has m = 0.  Every operation gives  *)
(* the double nearest to the exact result, ties to the even mantissa.      *)
(* Mantissas and the intermediate values are naturals below 2^60, kept as  *)
(* [h, l] with value h * 2^30 + l.  Infinities, NaN and subnormals do not  *)
(* arise from the amounts of a ledger.                                     *)
(***************************************************************************)
WideOf(n) == [h |-> n \div 1073741824, l |-> n % 1073741824]
WZero == WideOf(0)
WLess(a, b) == a.h < b.h \/ (a.h = b.h /\ a.l < b.l)
WAdd(a, b) ==
    [h |-> a.h + b.h + ((a.l + b.l) \div 1073741824),
     l |-> (a.l + b.l) % 1073741824]
\* a - b for a >= b
WSub(a, b) ==
    IF a.l >= b.l THEN [h |-> a.h - b.h, l |-> a.l - b.l]
    ELSE [h |-> a.h - b.h - 1, l |-> a.l + 1073741824 - b.l]
WDouble(a) == WAdd(a, a)
WHalf(a) == [h |-> a.h \div 2, l |-> ((a.h % 2) * 536870912) + (a.l \div 2)]
WOdd(a) == a.l % 2 = 1

\* a * 2^k for k < 60, the product being below 2^60
WShiftLeft(a, k) ==
    IF k >= 30 THEN [h |-> a.l * (2 ^ (k - 30)), l |-> 0]
    ELSE [h |-> (a.h * (2 ^ k)) + (a.l \div (2 ^ (30 - k))),
          l |-> (a.l % (2 ^ (30 - k))) * (2 ^ k)]

\* a shifted right by k bits, with whether a 1 bit was shifted out.
WShiftRight(a, k) ==
    IF k >= 60 THEN [w |-> WZero, lost |-> a # WZero]
    ELSE IF k >= 30
    THEN [w |-> [h |-> 0, l |-> a.h \div (2 ^ (k - 30))],
          lost |-> a.l # 0 \/ a.h % (2 ^ (k - 30)) # 0]
    ELSE [w |-> [h |-> a.h \div (2 ^ k),
                 l |-> ((a.h % (2 ^ k)) * (2 ^ (30 - k))) + (a.l \div (2 ^ k))],
          lost |-> a.l % (2 ^ k) # 0]

RECURSIVE WTimes(_, _)
WTimes(a, k) == IF k = 0 THEN WZero ELSE WAdd(a, WTimes(a, k - 1))

DoubleZero == [neg |-> FALSE, m |-> WZero, e |-> 0]

\* n and d scaled by powers of two until d <= n < 2d, the value
\* (n / d) * 2^e kept: n is doubled the fewest times that reach d, or d the
\* most times that stay at or below n.
Normalized(n, d, e) ==
    IF WLess(n, d)
    THEN LET k == CHOOSE k \in 1..60 :
                     /\ ~WLess(WShiftLeft(n, k), d)
                     /\ WLess(WShiftLeft(n, k - 1), d)
         IN  [n |-> WShiftLeft(n, k), d |-> d, e |-> e - k]
    ELSE LET k == CHOOSE k \in 0..60 :
                     /\ ~WLess(n, WShiftLeft(d, k))
                     /\ WLess(n, WDouble(WShiftLeft(d, k)))
         IN  [n |-> n, d |-> WShiftLeft(d, k), e |-> e + k]

\* One more bit of the quotient, by long division: s.q the bits so far,
\* s.r the remainder (s.r < d).
QuotientBit(s, d) ==
    IF ~WLess(WDouble(s.r), d)
    THEN [q |-> WAdd(WDouble(s.q), WideOf(1)), r |-> WSub(WDouble(s.r), d)]
    ELSE [q |-> WDouble(s.q), r |-> WDouble(s.r)]

\* k more bits, taken as two halves; once the division is exact, the bits
\* left are zeros.
RECURSIVE QuotientBits(_, _, _)
QuotientBits(s, d, k) ==
    LET Rest(half) ==
            IF half.r = WZero
            THEN [q |-> WShiftLeft(half.q, k - (k \div 2)), r |-> WZero]
            ELSE QuotientBits(half, d, k - (k \div 2))
    IN  IF k = 1 THEN QuotientBit(s, d) ELSE Rest(QuotientBits(s, d, k \div 2))

\* The double nearest to ((n + f) / d) * 2^e for naturals n and d > 0,
\* where f is 0, or, with sticky set, some fraction strictly between 0 and
\* 1 (d is then a power of two).
RoundedQuotient(neg, n, d, e, sticky) ==
    LET Rounded(b, dd, ee) ==
            LET up == \/ WLess(dd, WDouble(b.r))
                      \/ (WDouble(b.r) = dd /\ (sticky \/ WOdd(b.q)))
                q1 == IF up THEN WAdd(b.q, WideOf(1)) ELSE b.q
            IN  IF q1 = [h |-> 8388608, l |-> 0]
                THEN [neg |-> neg, m |-> WHalf(q1), e |-> ee + 1]
                ELSE [neg |-> neg, m |-> q1, e |-> ee]
        Divided(s) ==
            IF s.n = s.d
            THEN Rounded([q |-> [h |-> 4194304, l |-> 0], r |-> WZero], s.d, s.e - 52)
            ELSE Rounded(QuotientBits([q |-> WideOf(1), r |-> WSub(s.n, s.d)], s.d, 52),
                         s.d, s.e - 52)
    IN  IF n = WZero /\ ~sticky THEN DoubleZero ELSE Divided(Normalized(n, d, e))

\* The Number a decimal amount of c hundredths parses to.
DoubleOfCents(c) ==
    IF c = 0 THEN DoubleZero
    ELSE RoundedQuotient(c < 0, WideOf(IF c < 0 THEN 0 - c ELSE c), WideOf(100), 0,
                         FALSE)

\* The Number of an integer count.
DoubleOfInt(k) ==
    IF k = 0 THEN DoubleZero
    ELSE RoundedQuotient(k < 0, WideOf(IF k < 0 THEN 0 - k ELSE k), WideOf(1), 0,
                         FALSE)

\* |x| < |y|
MagnitudeLess(x, y) ==
    IF y.m = WZero THEN FALSE
    ELSE IF x.m = WZero THEN TRUE
    ELSE x.e < y.e \/ (x.e = y.e /\ WLess(x.m, y.m))

\* |x| + |y| (sub FALSE) or |x| - |y| (sub TRUE) for |x| >= |y| > 0, with
\* the sign given.  x is shifted up by at most 6 bits; what y loses when it
\* is shifted down to meet it only matters as being there (sticky).
MagnitudeSum(neg, x, y, sub) ==
    LET gap == x.e - y.e
        up == IF gap > 6 THEN 6 ELSE gap
        Aligned(xs, ys) ==
            LET n == IF sub
                     THEN WSub(WSub(xs, ys.w), WideOf(IF ys.lost THEN 1 ELSE 0))
                     ELSE WAdd(xs, ys.w)
            IN  IF n = WZero /\ ~ys.lost THEN DoubleZero
                ELSE RoundedQuotient(neg, n, WideOf(1), x.e - up, ys.lost)
    IN  Aligned(WShiftLeft(x.m, up), WShiftRight(y.m, gap - up))

\* x + y
DoubleAdd(x, y) ==
    IF x.m = WZero THEN y
    ELSE IF y.m = WZero THEN x
    ELSE IF x.neg = y.neg
    THEN (IF MagnitudeLess(x, y) THEN MagnitudeSum(x.neg, y, x, FALSE)
          ELSE MagnitudeSum(x.neg, x, y, FALSE))
    ELSE (IF MagnitudeLess(x, y) THEN MagnitudeSum(y.neg, y, x, TRUE)
          ELSE MagnitudeSum(x.neg, x, y, TRUE))

DoubleNegate(x) == IF x.m = WZero THEN x ELSE [x EXCEPT !.neg = ~@]

\* x - y
DoubleSubtract(x, y) == DoubleAdd(x, DoubleNegate(y))

\* Math.abs(x)
MathAbs(x) == [x EXCEPT !.neg = FALSE]

\* x / y for y # 0
DoubleDivide(x, y) ==
    IF x.m = WZero THEN DoubleZero
    ELSE RoundedQuotient(x.neg # y.neg, x.m, y.m, x.e - y.e, FALSE)

\* x * k for a count k > 0
DoubleTimes(x, k) ==
    IF x.m = WZero THEN DoubleZero
    ELSE RoundedQuotient(x.neg, WTimes(x.m, k), WideOf(1), x.e, FALSE)

\* x < y
DoubleLess(x, y) ==
    IF x.neg /\ ~y.neg THEN TRUE
    ELSE IF ~x.neg /\ y.neg THEN FALSE
    ELSE IF x.neg THEN MagnitudeLess(y, x)
    ELSE MagnitudeLess(x, y)

\* x <= y
DoubleLessEq(x, y) == ~DoubleLess(y, x)

(***************************************************************************)
(* Calls on a CategorizationEngine: the engine is built from an ordered    *)
(* category list, a legacy rule list and the memory table; the caller      *)
(* hands it one transaction (categorize) or its array of transaction       *)
(* objects (batchCategorize, which returns nothing and assigns             *)
(* txn.categoryId on the objects of the array).                            *)
(***************************************************************************)
PatternChoices ==
    {Pattern(<<"x">>, 1, TRUE), Pattern(<<"x">>, 2, TRUE),
     Pattern(<<"x">>, 0, FALSE), Pattern(<<"(", "x">>, 0, TRUE)}

Rule(id, text, categoryId, priority) ==
    [id |-> id, pattern |-> text, categoryId |-> categoryId,
     priority |-> priority, enabled |-> TRUE]

RuleChoices ==
    {Rule("r1", <<"x">>, "dining", 10), Rule("r2", <<"x">>, "groceries", 1)}

RuleLists ==
    SeqsUpTo(RuleChoices, MaxRules)
    \cup {<<Rule("r0", <<"(", "x">>, "groceries", 0),
            Rule("r1", <<"x">>, "dining", 10)>>}

MemoryTables == {EmptyMap, MapSet(EmptyMap, <<"X">>, "dining")}

Engines ==
    {[categories |-> << [id |-> "groceries", patterns |-> g],
                        [id |-> "dining", patterns |-> d] >>,
      rules |-> r,
      descriptionMappings |-> m] :
        g \in SeqsUpTo(PatternChoices, MaxPatterns),
        d \in {<<>>, <<Pattern(<<"x">>, 1, TRUE)>>},
        r \in RuleLists,
        m \in MemoryTables}

\* A transaction as parseCSV makes it, with the category fields as the
\* application may have set them since.
Charge(description, categoryId, manual) ==
    [id |-> generateTransactionId(Day(2025, 1, 11, "local"), 0 - 1901,
                                  description, Absent),
     date |-> Day(2025, 1, 11, "local"),
     description |-> description,
     amount |-> 0 - 1901,
     type |-> "DEBIT",
     isExcluded |-> FALSE,
     source |-> "CSV",
     sourceFile |-> Absent,
     accountId |-> Absent,
     transactionId |-> Absent,
     memo |-> Absent,
     isManuallyCategorized |-> manual,
     categoryId |-> categoryId]

Charges ==
    {Charge(<<"X">>, NoCategory, FALSE), Charge(<<"Y">>, NoCategory, FALSE),
     Charge(<<"X">>, "groceries", FALSE), Charge(<<"X">>, NoCategory, TRUE)}

NoEngine == [categories |-> <<>>, rules |-> <<>>, descriptionMappings |-> EmptyMap]
NoCall == [op |-> "none", count |-> 0, index |-> 0, returned |-> NoCategory,
           before |-> <<>>]

\* engine.categorize(transactions[index])
Categorize ==
    /\ call.op = "none"
    /\ \E i \in 1..Len(txns) :
         call' = [op |-> "categorize", count |-> 1, index |-> i,
                  returned |-> categorize(engine.categories, engine.rules,
                                          engine.descriptionMappings, txns[i]),
                  before |-> txns]
    /\ UNCHANGED <<engine, txns, repairVars, parseVars, appVars, uploadVars, analyticsVars>>

\* engine.batchCategorize(transactions): the objects of the array come out
\* with the categoryId the loop assigned.
BatchCategorize ==
    /\ call.op \in {"none", "batchCategorize"}
    /\ call.count < MaxCalls
    /\ txns' = batchCategorize(engine.categories, engine.rules,
                               engine.descriptionMappings, txns)
    /\ call' = [op |-> "batchCategorize", count |-> call.count + 1, index |-> 0,
                returned |-> NoCategory, before |-> txns]
    /\ UNCHANGED <<engine, repairVars, parseVars, appVars, uploadVars, analyticsVars>>

(***************************************************************************)
(* AnalyticsCalculator.  A transaction's amount is a Number: the double    *)
(* nearest to its hundredths.  Dates are days at midnight of one zone that *)
(* keeps one offset over the ledger, so getTime() is counted in whole days *)
(* and format() shows the day's own year and month.  A Map is the sequence *)
(* of its entries in insertion order.                                      *)
(***************************************************************************)
UpperCase == {"A", "B", "C", "D", "E", "F", "G", "H", "I", "J", "K", "L", "M",
              "N", "O", "P", "Q", "R", "S", "T", "U", "V", "W", "X", "Y", "Z"}

\* The length of the run of digits s starts with.
RECURSIVE DigitRun(_)
DigitRun(s) == IF s # <<>> /\ IsDigit(Head(s)) THEN 1 + DigitRun(Tail(s)) ELSE 0

\* .replace(/SQ \*/gi, '')
RECURSIVE ReplaceSquare(_)
ReplaceSquare(s) ==
    IF s = <<>> THEN <<>>
    ELSE IF /\ Len(s) >= 4
            /\ s[1] \in {"S", "s"} /\ s[2] \in {"Q", "q"}
            /\ s[3] = " " /\ s[4] = "*"
    THEN ReplaceSquare(SubSeq(s, 5, Len(s)))
    ELSE <<Head(s)>> \o ReplaceSquare(Tail(s))

\* .replace(/\d{10,}/g, '')
RECURSIVE ReplaceLongNumbers(_)
ReplaceLongNumbers(s) ==
    IF s = <<>> THEN <<>>
    ELSE IF DigitRun(s) >= 10
    THEN ReplaceLongNumbers(SubSeq(s, DigitRun(s) + 1, Len(s)))
    ELSE <<Head(s)>> \o ReplaceLongNumbers(Tail(s))

\* .replace(/[A-Z]{2}\d{4,}/g, '')
RECURSIVE ReplaceLocationCodes(_)
ReplaceLocationCodes(s) ==
    IF s = <<>> THEN <<>>
    ELSE IF /\ Len(s) >= 6
            /\ s[1] \in UpperCase /\ s[2] \in UpperCase
            /\ DigitRun(SubSeq(s, 3, Len(s))) >= 4
    THEN ReplaceLocationCodes(SubSeq(s, 3 + DigitRun(SubSeq(s, 3, Len(s))),
                                     Len(s)))
    ELSE <<Head(s)>> \o ReplaceLocationCodes(Tail(s))

normalizeMerchant(description) ==
    LET Substring0To30(t) == SubSeq(t, 1, IF Len(t) < 30 THEN Len(t) ELSE 30)
    IN  Substring0To30(Trim(ReplaceLocationCodes(ReplaceLongNumbers(
            ReplaceSquare(description)))))

\* groups.get(key).push(txn), after groups.set(key, []) for a key not there
GroupPush(groups, key, txn) ==
    IF \E i \in 1..Len(groups) : groups[i].key = key
    THEN [i \in 1..Len(groups) |->
            IF groups[i].key = key
            THEN [groups[i] EXCEPT !.txns = Append(@, txn)] ELSE groups[i]]
    ELSE Append(groups, [key |-> key, txns |-> <<txn>>])

RECURSIVE MerchantGroups(_)
MerchantGroups(filtered) ==
    IF filtered = <<>> THEN <<>>
    ELSE GroupPush(MerchantGroups(SubSeq(filtered, 1, Len(filtered) - 1)),
                   normalizeMerchant(filtered[Len(filtered)].description),
                   filtered[Len(filtered)])

groupByMerchant(transactions) ==
    MerchantGroups(SelectSeq(transactions,
                             LAMBDA t : t.type = "DEBIT" /\ ~t.isExcluded))

\* amounts.reduce((a, b) => a + b, 0)
RECURSIVE ReduceSum(_)
ReduceSum(amounts) ==
    IF amounts = <<>> THEN DoubleZero
    ELSE DoubleAdd(ReduceSum(SubSeq(amounts, 1, Len(amounts) - 1)),
                   amounts[Len(amounts)])

sumAmounts(transactions) ==
    ReduceSum([i \in 1..Len(transactions) |-> DoubleOfCents(transactions[i].amount)])

\* The days from 1970-01-01 to the first day of the year y >= 1970.
DaysBeforeYear(y) ==
    ((y - 1970) * 365) + ((y - 1969) \div 4) - ((y - 1901) \div 100)
    + ((y - 1601) \div 400)

RECURSIVE DaysBeforeMonth(_, _)
DaysBeforeMonth(y, m) ==
    IF m <= 1 THEN 0 ELSE DaysBeforeMonth(y, m - 1) + DaysInMonth(y, m - 1)

\* date.getTime() / (1000 * 60 * 60 * 24)
getTime(date) == DaysBeforeYear(date.y) + DaysBeforeMonth(date.y, date.m) + date.d - 1

\* .sort((a, b) => a - b)
RECURSIVE SortAscending(_)
SortAscending(times) ==
    IF times = <<>> THEN <<>>
    ELSE LET Inserted(sorted, x) ==
                 LET k == Cardinality({i \in 1..Len(sorted) : sorted[i] <= x})
                 IN  SubSeq(sorted, 1, k) \o <<x>> \o SubSeq(sorted, k + 1, Len(sorted))
         IN  Inserted(SortAscending(SubSeq(times, 1, Len(times) - 1)),
                      times[Len(times)])

RECURSIVE SumOfIntervals(_)
SumOfIntervals(intervals) ==
    IF intervals = <<>> THEN 0
    ELSE Head(intervals) + SumOfIntervals(Tail(intervals))

\* A test that wants every interval, not their average, within 25..35 days.
EveryIntervalMonthly(transactions) ==
    LET dates == SortAscending([i \in 1..Len(transactions) |->
                                  getTime(transactions[i].date)])
    IN  /\ Len(transactions) >= 2
        /\ \A i \in 1..(Len(dates) - 1) :
              dates[i + 1] - dates[i] >= 25 /\ dates[i + 1] - dates[i] <= 35

\* The intervals are whole numbers of days, so their sum is exact, and the
\* quotient sum / length, rounded to the nearest double, is at least 25
\* (at most 35) exactly when sum >= 25 * length (sum <= 35 * length).
isLikelySubscription(transactions) ==
    IF Len(transactions) < 2 THEN FALSE
    ELSE LET Averaged(intervals) ==
                 /\ SumOfIntervals(intervals) >= 25 * Len(intervals)
                 /\ SumOfIntervals(intervals) <= 35 * Len(intervals)
             Intervals(dates) ==
                 Averaged([i \in 1..(Len(dates) - 1) |-> dates[i + 1] - dates[i]])
         IN  Intervals(SortAscending([i \in 1..Len(transactions) |->
                                        getTime(transactions[i].date)]))

\* A similarity test every group passes.
AlwaysSimilar(amounts, avgAmount) == TRUE

\* amounts.every(amt => Math.abs(amt - avgAmount) / avgAmount <= 0.1)
isSimilar(amounts, avgAmount) ==
    \A i \in 1..Len(amounts) :
        DoubleLessEq(DoubleDivide(MathAbs(DoubleSubtract(amounts[i], avgAmount)),
                                  avgAmount),
                     DoubleOfCents(10))

\* The entries left in the order the groups were visited.
InsertionOrder(repeated) == repeated

\* .sort((a, b) => b.totalAmount - a.totalAmount): the sort is stable.
RECURSIVE SortByTotalAmount(_)
SortByTotalAmount(repeated) ==
    IF repeated = <<>> THEN <<>>
    ELSE LET Inserted(sorted, x) ==
                 LET k == Cardinality({i \in 1..Len(sorted) :
                                         ~DoubleLess(sorted[i].totalAmount,
                                                     x.totalAmount)})
                 IN  SubSeq(sorted, 1, k) \o <<x>> \o SubSeq(sorted, k + 1, Len(sorted))
         IN  Inserted(SortByTotalAmount(SubSeq(repeated, 1, Len(repeated) - 1)),
                      repeated[Len(repeated)])

\* The callback of groups.forEach: what it pushes on repeated.
RepeatedExpenseOf(merchant, groupTxns) ==
    LET Pushed(amounts, avgAmount, subscription) ==
            IF isSimilar(amounts, avgAmount)
            THEN <<[merchantPattern |-> merchant,
                    occurrences |-> Len(groupTxns),
                    averageAmount |-> avgAmount,
                    totalAmount |-> ReduceSum(amounts),
                    transactionIds |-> [i \in 1..Len(groupTxns) |-> groupTxns[i].id],
                    isLikelySubscription |-> subscription,
                    estimatedMonthly |-> IF subscription THEN avgAmount
                                         ELSE Undefined]>>
            ELSE <<>>
        Averaged(amounts) ==
            Pushed(amounts,
                   DoubleDivide(ReduceSum(amounts), DoubleOfInt(Len(amounts))),
                   isLikelySubscription(groupTxns))
    IN  IF Len(groupTxns) < 2 THEN <<>>
        ELSE Averaged([i \in 1..Len(groupTxns) |->
                         MathAbs(DoubleOfCents(groupTxns[i].amount))])

RECURSIVE RepeatedOf(_)
RepeatedOf(groups) ==
    IF groups = <<>> THEN <<>>
    ELSE RepeatedExpenseOf(Head(groups).key, Head(groups).txns)
         \o RepeatedOf(Tail(groups))

detectRepeatedExpenses(transactions) ==
    SortByTotalAmount(RepeatedOf(groupByMerchant(transactions)))

\* format(date, 'yyyy-MM')
RECURSIVE PadStart(_, _)
PadStart(digits, width) ==
    IF Len(digits) >= width THEN digits ELSE PadStart(<<"0">> \o digits, width)

format(date) == PadStart(DigitsOf(date.y), 4) \o <<"-">> \o PadStart(DigitsOf(date.m), 2)

\* a.localeCompare(b) < 0 for texts of digits and hyphens: the hyphen sorts
\* before the digits, the digits by value, a proper prefix before the
\* longer text.
RECURSIVE ComparesBefore(_, _)
ComparesBefore(a, b) ==
    LET Rank(c) == IF c = "-" THEN 0 ELSE 1 + DigitVal(c)
    IN  IF b = <<>> THEN FALSE
        ELSE IF a = <<>> THEN TRUE
        ELSE IF Head(a) # Head(b) THEN Rank(Head(a)) < Rank(Head(b))
        ELSE ComparesBefore(Tail(a), Tail(b))

RECURSIVE MonthGroups(_)
MonthGroups(transactions) ==
    IF transactions = <<>> THEN <<>>
    ELSE GroupPush(MonthGroups(SubSeq(transactions, 1, Len(transactions) - 1)),
                   format(transactions[Len(transactions)].date),
                   transactions[Len(transactions)])

groupByMonth(transactions) == MonthGroups(transactions)

\* const categoryId = t.categoryId || 'uncategorized';
\* totals[categoryId] = (totals[categoryId] || 0) + Math.abs(t.amount);
RECURSIVE CategoryTotalsOf(_)
CategoryTotalsOf(debits) ==
    IF debits = <<>> THEN [c \in {} |-> DoubleZero]
    ELSE LET Added(totals, t, categoryId) ==
                 [c \in DOMAIN totals \cup {categoryId} |->
                    IF c = categoryId
                    THEN DoubleAdd(IF c \in DOMAIN totals THEN totals[c]
                                   ELSE DoubleZero,
                                   MathAbs(DoubleOfCents(t.amount)))
                    ELSE totals[c]]
             Keyed(totals, t) ==
                 Added(totals, t,
                       IF t.categoryId \in {NoCategory, ""} THEN "uncategorized"
                       ELSE t.categoryId)
         IN  Keyed(CategoryTotalsOf(SubSeq(debits, 1, Len(debits) - 1)),
                   debits[Len(debits)])

computeCategoryTotalsForTransactions(transactions) ==
    CategoryTotalsOf(SelectSeq(transactions, LAMBDA t : t.type = "DEBIT"))

\* The month's transactions with the credits kept.
EveryTransaction(nonExcluded) == nonExcluded

\* nonExcluded.filter(t => t.type === 'DEBIT')
Expenses(nonExcluded) == SelectSeq(nonExcluded, LAMBDA t : t.type = "DEBIT")

\* The callback of the map over byMonth.entries().
MonthlySummaryOf(month, monthTxns) ==
    LET Summary(nonExcluded) ==
            [month |-> month,
             totalDebits |-> sumAmounts(Expenses(nonExcluded)),
             totalCredits |-> DoubleZero,
             net |-> DoubleZero,
             categoryTotals |-> computeCategoryTotalsForTransactions(nonExcluded),
             transactionCount |-> Len(nonExcluded)]
    IN  Summary(SelectSeq(monthTxns, LAMBDA t : ~t.isExcluded))

\* .sort((a, b) => a.month.localeCompare(b.month)): the sort is stable.
RECURSIVE SortByMonth(_)
SortByMonth(summaries) ==
    IF summaries = <<>> THEN <<>>
    ELSE LET Inserted(sorted, x) ==
                 LET k == Cardinality({i \in 1..Len(sorted) :
                                         ~ComparesBefore(x.month, sorted[i].month)})
                 IN  SubSeq(sorted, 1, k) \o <<x>> \o SubSeq(sorted, k + 1, Len(sorted))
         IN  Inserted(SortByMonth(SubSeq(summaries, 1, Len(summaries) - 1)),
                      summaries[Len(summaries)])

computeMonthlySummaries(transactions) ==
    LET Mapped(byMonth) ==
            [i \in 1..Len(byMonth) |-> MonthlySummaryOf(byMonth[i].key, byMonth[i].txns)]
    IN  SortByMonth(Mapped(groupByMonth(transactions)))

\* A month for every transaction, whatever its date.
MonthPerTransaction(nonExcluded) == 1..Len(nonExcluded)

\* new Set(nonExcluded.map(t => format(t.date, 'yyyy-MM')))
UniqueMonths(nonExcluded) == {format(nonExcluded[i].date) : i \in 1..Len(nonExcluded)}

Null == [null |-> TRUE]

\* computeOverallStats; the dates of dateRange are counted in days.
computeOverallStats(transactions) ==
    LET Stats(nonExcluded, totalDebits, monthCount) ==
            [totalDebits |-> totalDebits,
             totalCredits |-> DoubleZero,
             net |-> DoubleZero,
             transactionCount |-> Len(nonExcluded),
             dateRange |->
                 IF Len(nonExcluded) > 0
                 THEN LET dates == {getTime(nonExcluded[i].date) :
                                       i \in 1..Len(nonExcluded)}
                      IN  [start |-> CHOOSE d \in dates : \A e \in dates : d <= e,
                           end |-> CHOOSE d \in dates : \A e \in dates : e <= d]
                 ELSE Null,
             monthCount |-> monthCount,
             averageMonthlyExpenses |->
                 IF monthCount > 0
                 THEN DoubleDivide(totalDebits, DoubleOfInt(monthCount))
                 ELSE DoubleZero]
        Filtered(nonExcluded) ==
            Stats(nonExcluded,
                  MathAbs(sumAmounts(SelectSeq(nonExcluded, LAMBDA t : t.type = "DEBIT"))),
                  Cardinality(UniqueMonths(nonExcluded)))
    IN  Filtered(SelectSeq(transactions, LAMBDA t : ~t.isExcluded))

(***************************************************************************)
(* The ledgers the analytics are checked on: up to MaxLedger transactions  *)
(* of one merchant, whose descriptions differ in what normalizeMerchant    *)
(* removes, before or after the transactions of a second merchant.         *)
(***************************************************************************)
Purchase(description, amount, type, date, isExcluded, categoryId) ==
    [id |-> generateTransactionId(date, amount, description, Absent),
     date |-> date,
     description |-> description,
     amount |-> amount,
     type |-> type,
     isExcluded |-> isExcluded,
     source |-> "CSV",
     sourceFile |-> Absent,
     accountId |-> Absent,
     transactionId |-> Absent,
     memo |-> Absent,
     isManuallyCategorized |-> FALSE,
     categoryId |-> categoryId]

FirstMerchant ==
    {Purchase(<<"X">>, 0 - 10000, "DEBIT", Day(2025, 1, 10, "local"), FALSE,
              "dining"),
     Purchase(<<"S", "q", " ", "*", "X">>, 0 - 11500, "DEBIT",
              Day(2025, 2, 4, "local"), FALSE, "groceries"),
     Purchase(<<"X", " ", "1", "2", "3", "4", "5", "6", "7", "8", "9", "0">>,
              0 - 10999, "DEBIT", Day(2025, 3, 11, "local"), FALSE, NoCategory),
     Purchase(<<"X", " ", "C", "A", "9", "4", "0", "0">>, 0 - 9100, "DEBIT",
              Day(2025, 2, 15, "local"), FALSE, "dining"),
     Purchase(<<"X">>, 0 - 10000, "DEBIT", Day(2025, 1, 20, "local"), TRUE,
              "dining"),
     Purchase(<<"X">>, 10000, "CREDIT", Day(2025, 1, 22, "local"), FALSE,
              "dining")}

SecondMerchant ==
    {<<>>,
     <<Purchase(<<"Y">>, 0 - 90, "DEBIT", Day(2025, 1, 5, "local"), FALSE,
                "dining"),
       Purchase(<<"Y">>, 0 - 110, "DEBIT", Day(2025, 2, 4, "local"), FALSE,
                "dining")>>,
     <<Purchase(<<"W">>, 0 - 91, "DEBIT", Day(2025, 1, 5, "local"), FALSE,
                NoCategory),
       Purchase(<<"W">>, 0 - 101, "DEBIT", Day(2025, 2, 4, "local"), FALSE,
                NoCategory),
       Purchase(<<"W">>, 0 - 110, "DEBIT", Day(2025, 3, 6, "local"), FALSE,
                NoCategory)>>,
     <<Purchase(<<"Z">>, 0 - 30000, "DEBIT", Day(2024, 12, 15, "local"), FALSE,
                "groceries"),
       Purchase(<<"Z">>, 0 - 30000, "DEBIT", Day(2025, 1, 14, "local"), FALSE,
                "groceries")>>}

Ledgers ==
    LET first == {a \in SeqsUpTo(FirstMerchant, MaxLedger) :
                    \A i, j \in 1..Len(a) : a[i] = a[j] => i = j}
    IN  {a \o b : a \in first, b \in SecondMerchant}
        \cup {b \o a : a \in first, b \in SecondMerchant}

NoAnalytics ==
    [op |-> "none", repeatedExpenses |-> <<>>, monthlySummaries |-> <<>>,
     overallStats |-> Undefined]

\* new AnalyticsCalculator(transactions).detectRepeatedExpenses()
DetectRepeatedExpenses ==
    /\ derived' = [op |-> "detectRepeatedExpenses",
                   repeatedExpenses |-> detectRepeatedExpenses(ledger),
                   monthlySummaries |-> <<>>,
                   overallStats |-> Undefined]
    /\ UNCHANGED <<ledger, repairVars, parseVars, appVars, uploadVars, engineVars>>

\* new AnalyticsCalculator(transactions).computeMonthlySummaries()
ComputeMonthlySummaries ==
    /\ derived' = [op |-> "computeMonthlySummaries",
                   repeatedExpenses |-> <<>>,
                   monthlySummaries |-> computeMonthlySummaries(ledger),
                   overallStats |-> Undefined]
    /\ UNCHANGED <<ledger, repairVars, parseVars, appVars, uploadVars, engineVars>>

\* new AnalyticsCalculator(transactions).computeOverallStats()
ComputeOverallStats ==
    /\ derived' = [op |-> "computeOverallStats",
                   repeatedExpenses |-> <<>>,
                   monthlySummaries |-> <<>>,
                   overallStats |-> computeOverallStats(ledger)]
    /\ UNCHANGED <<ledger, repairVars, parseVars, appVars, uploadVars, engineVars>>

(***************************************************************************)
(* Spec: the application.  last records the latest dispatch: for an        *)
(* upload, whether ADD_TRANSACTIONS was dispatched, whether every id of    *)
(* its batch was in state.transactions already, and whether                *)
(* state.transactions came out as it went in.                              *)
(***************************************************************************)
Did(type) ==
    [type |-> type, step |-> IF type = "INIT" THEN 0 ELSE last.step + 1,
     dispatched |-> FALSE, allPresent |-> FALSE, unchanged |-> FALSE]

\* The calls of uploadFiles: the files chosen and what parseFiles makes of
\* them.
Uploads ==
    {[files |-> files, result |-> parseFiles(files)] :
        files \in SeqsUpTo(AppFiles, MaxBatch) \ {<<>>}}

Load ==
    /\ last.type = "INIT"
    /\ \E stored \in StoredData : state' = LoadEffect(state, stored)
    /\ last' = Did("LOAD_DATA")
    /\ UNCHANGED <<repairVars, parseVars, engineVars, analyticsVars, uploadVars>>

Upload ==
    /\ last.type # "INIT" /\ last.step < MaxSteps
    /\ \E upload \in Uploads :
         LET result == upload.result
         IN  /\ state' = UploadFiles(state, result)
             /\ last' = [Did("ADD_TRANSACTIONS") EXCEPT
                         !.dispatched = Len(result.transactions) > 0,
                         !.allPresent = Ids(result.transactions)
                                            \subseteq Ids(state.transactions),
                         !.unchanged = state'.transactions = state.transactions]
    /\ UNCHANGED <<repairVars, parseVars, engineVars, analyticsVars, uploadVars>>

\* actions.categorizeTransaction from the <select> of a listed transaction.
CategorizeTransaction ==
    /\ last.type # "INIT" /\ last.step < MaxSteps
    /\ \E i \in 1..Len(state.transactions), categoryId \in SelectOptions(state) :
         state' = CategorizeTransactionCase(state,
                     [id |-> state.transactions[i].id, categoryId |-> categoryId,
                      description |-> state.transactions[i].description])
    /\ last' = Did("CATEGORIZE_TRANSACTION")
    /\ UNCHANGED <<repairVars, parseVars, engineVars, analyticsVars, uploadVars>>

RecategorizeTransactions ==
    /\ last.type # "INIT" /\ last.step < MaxSteps
    /\ \E preserveManual \in BOOLEAN :
         state' = RecategorizeTransactionsCase(state, [preserveManual |-> preserveManual])
    /\ last' = Did("RECATEGORIZE_TRANSACTIONS")
    /\ UNCHANGED <<repairVars, parseVars, engineVars, analyticsVars, uploadVars>>

ToggleExclusion ==
    /\ last.type # "INIT" /\ last.step < MaxSteps
    /\ \E id \in Ids(state.transactions) :
         /\ ToggleExclusionCase(state, id) # TypeError
         /\ state' = ToggleExclusionCase(state, id)
    /\ last' = Did("TOGGLE_EXCLUSION")
    /\ UNCHANGED <<repairVars, parseVars, engineVars, analyticsVars, uploadVars>>

DeleteDescriptionMapping ==
    /\ last.type # "INIT" /\ last.step < MaxSteps
    /\ \E description \in DOMAIN state.descriptionMappings :
         state' = DeleteDescriptionMappingCase(state, description)
    /\ last' = Did("DELETE_DESCRIPTION_MAPPING")
    /\ UNCHANGED <<repairVars, parseVars, engineVars, analyticsVars, uploadVars>>

ClearTransactions ==
    /\ last.type # "INIT" /\ last.step < MaxSteps
    /\ state' = ClearTransactionsCase(state)
    /\ last' = Did("CLEAR_TRANSACTIONS")
    /\ UNCHANGED <<repairVars, parseVars, engineVars, analyticsVars, uploadVars>>

Init ==
    /\ state = initialState
    /\ last = Did("INIT")
    /\ rIn = NoFragment /\ rOut = NoOutput /\ scan = NoScan
    /\ calls = NoCalls
    /\ pFile = NoFile /\ pResult = NoResult
    /\ engine = NoEngine /\ txns = <<>> /\ call = NoCall
    /\ ledger = <<>> /\ derived = NoAnalytics

Next ==
    \/ Load
    \/ Upload
    \/ CategorizeTransaction
    \/ RecategorizeTransactions
    \/ ToggleExclusion
    \/ DeleteDescriptionMapping
    \/ ClearTransactions

Spec == Init /\ [][Next]_vars

(***************************************************************************)
(* SpecReducer: appReducer under the dispatches of a session, LOAD_DATA    *)
(* first.  last records the latest dispatch and what the properties need   *)
(* of the ones before it: for TOGGLE_EXCLUSION the id, the state before it *)
(* and, when the dispatch before it toggled the same id, the state before  *)
(* that one (original); the ids that TOGGLE_EXCLUSION excluded and that    *)
(* are excluded still (toggledOn); the signatures such transactions had    *)
(* when CLEAR_TRANSACTIONS removed them, until a dispatch that edits the   *)
(* exclusions (wiped); for DELETE_CATEGORY the id deleted.                 *)
(***************************************************************************)
NoState == [none |-> TRUE]

Entry(description, accountId, categoryId) ==
    [Purchase(description, 0 - 1901, "DEBIT", Day(2025, 1, 11, "local"), FALSE,
              categoryId)
        EXCEPT !.id = generateTransactionId(Day(2025, 1, 11, "local"), 0 - 1901,
                                            description, accountId),
               !.accountId = accountId]

\* Three transactions of one day and one amount: two of one description on
\* two accounts, and one of another description.
EntryA == Entry(<<"X">>, <<"A1">>, "dining")
EntryB == Entry(<<"X">>, <<"A2">>, NoCategory)
EntryC == Entry(<<"Y">>, <<"A1">>, "groceries")

\* Preferences stored with both signatures excluded.
ExcludingPreferences ==
    [loadPreferences(DefaultPreferences) EXCEPT
        !.excludedTransactionSignatures = <<Signature(EntryA), Signature(EntryC)>>]

\* What storage can hold when the page opens.
StoredSessions ==
    [transactions : {<<>>, <<EntryA, EntryB, EntryC>>},
     preferences : {DefaultPreferences, loadPreferences(DefaultPreferences),
                    ExcludingPreferences},
     manualOverrides : {EmptyMap},
     descriptionMappings : {EmptyMap}]

\* The batches ADD_TRANSACTIONS is dispatched with.
Batches == {<<EntryA>>, <<EntryB>>, <<EntryA, EntryA>>, <<EntryA, EntryC>>}

Mounted ==
    [type |-> "INIT", step |-> 0, id |-> Absent, before |-> NoState,
     original |-> NoState, toggledOn |-> {}, wiped |-> {}, deleted |-> NoCategory]

\* The record of a dispatch that leaves the exclusions as they were.
Dispatch(type) ==
    [Mounted EXCEPT !.type = type, !.step = last.step + 1,
                    !.toggledOn = last.toggledOn, !.wiped = last.wiped]

\* The record of a dispatch that edits the exclusions.
DispatchEditing(type) ==
    [Mounted EXCEPT !.type = type, !.step = last.step + 1]

Dispatching == last.type # "INIT" /\ last.step < MaxDispatches

DispatchLoadData ==
    /\ last.type = "INIT"
    /\ \E stored \in StoredSessions : state' = LoadEffect(state, stored)
    /\ last' = DispatchEditing("LOAD_DATA")
    /\ UNCHANGED <<repairVars, parseVars, engineVars, analyticsVars, uploadVars>>

DispatchAddTransactions ==
    /\ Dispatching
    /\ \E batch \in Batches :
         state' = AddTransactions(state, [transactions |-> batch, errors |-> <<>>])
    /\ last' = Dispatch("ADD_TRANSACTIONS")
    /\ UNCHANGED <<repairVars, parseVars, engineVars, analyticsVars, uploadVars>>

DispatchCategorizeTransaction ==
    /\ Dispatching
    /\ \E i \in 1..Len(state.transactions), categoryId \in SelectOptions(state) :
         state' = CategorizeTransactionCase(state,
                     [id |-> state.transactions[i].id, categoryId |-> categoryId,
                      description |-> state.transactions[i].description])
    /\ last' = Dispatch("CATEGORIZE_TRANSACTION")
    /\ UNCHANGED <<repairVars, parseVars, engineVars, analyticsVars, uploadVars>>

DispatchToggleExclusion ==
    /\ Dispatching
    /\ \E id \in Ids(state.transactions) :
         LET toggled == ToggleExclusionCase(state, id)
         IN  /\ toggled # TypeError
             /\ state' = toggled
             /\ last' = [DispatchEditing("TOGGLE_EXCLUSION") EXCEPT
                            !.id = id,
                            !.before = state,
                            !.original = IF last.type = "TOGGLE_EXCLUSION" /\ last.id = id
                                         THEN last.before ELSE NoState,
                            !.toggledOn = IF id \in toggled.excludedIds
                                          THEN last.toggledOn \cup {id}
                                          ELSE last.toggledOn \ {id}]
    /\ UNCHANGED <<repairVars, parseVars, engineVars, analyticsVars, uploadVars>>

\* actions.toggleRepeatedExpenseExclusion on the repeated expense of one
\* merchant: its pattern and the ids of its transactions.
DispatchToggleRepeatedExpenseExclusion ==
    /\ Dispatching
    /\ \E description \in {state.transactions[i].description :
                                i \in 1..Len(state.transactions)} :
         LET transactionIds == Ids(SelectSeq(state.transactions,
                                             LAMBDA t : t.description = description))
             toggled == ToggleRepeatedExpenseExclusionCase(state,
                            [merchantPattern |-> description,
                             transactionIds |-> transactionIds])
         IN  /\ toggled # TypeError
             /\ state' = toggled
             /\ last' = [DispatchEditing("TOGGLE_REPEATED_EXPENSE_EXCLUSION") EXCEPT
                            !.toggledOn = last.toggledOn \ transactionIds]
    /\ UNCHANGED <<repairVars, parseVars, engineVars, analyticsVars, uploadVars>>

DispatchAddCategory ==
    /\ Dispatching
    /\ "travel" \notin CategoryIds(state.categories)
    /\ state' = AddCategoryCase(state, [id |-> "travel", patterns |-> <<>>])
    /\ last' = Dispatch("ADD_CATEGORY")
    /\ UNCHANGED <<repairVars, parseVars, engineVars, analyticsVars, uploadVars>>

DispatchUpdateCategory ==
    /\ Dispatching
    /\ \E id \in CategoryIds(state.categories) :
         state' = UpdateCategoryCase(state,
                     [id |-> id, patterns |-> <<Pattern(<<"y">>, 1, TRUE)>>])
    /\ last' = Dispatch("UPDATE_CATEGORY")
    /\ UNCHANGED <<repairVars, parseVars, engineVars, analyticsVars, uploadVars>>

DispatchDeleteCategory ==
    /\ Dispatching
    /\ \E id \in CategoryIds(state.categories) :
         /\ state' = DeleteCategoryCase(state, id)
         /\ last' = [Dispatch("DELETE_CATEGORY") EXCEPT !.deleted = id]
    /\ UNCHANGED <<repairVars, parseVars, engineVars, analyticsVars, uploadVars>>

DispatchAddPattern ==
    /\ Dispatching
    /\ \E i \in 1..Len(state.categories) :
         /\ state.categories[i].patterns = <<>>
         /\ state' = AddPatternCase(state,
                         [categoryId |-> state.categories[i].id,
                          pattern |-> Pattern(<<"x">>, 1, TRUE)])
    /\ last' = Dispatch("ADD_PATTERN")
    /\ UNCHANGED <<repairVars, parseVars, engineVars, analyticsVars, uploadVars>>

DispatchAddRule ==
    /\ Dispatching
    /\ \A i \in 1..Len(state.rules) : state.rules[i].id # "r2"
    /\ state' = AddRuleCase(state,
                    [id |-> "r2", pattern |-> <<"y">>, categoryId |-> "groceries",
                     priority |-> 5, enabled |-> TRUE])
    /\ last' = Dispatch("ADD_RULE")
    /\ UNCHANGED <<repairVars, parseVars, engineVars, analyticsVars, uploadVars>>

DispatchDeleteRule ==
    /\ Dispatching
    /\ \E i \in 1..Len(state.rules) : state' = DeleteRuleCase(state, state.rules[i].id)
    /\ last' = Dispatch("DELETE_RULE")
    /\ UNCHANGED <<repairVars, parseVars, engineVars, analyticsVars, uploadVars>>

DispatchImportPreferences ==
    /\ Dispatching
    /\ state' = ImportPreferencesCase(state, EditedPreferences)
    /\ last' = DispatchEditing("IMPORT_PREFERENCES")
    /\ UNCHANGED <<repairVars, parseVars, engineVars, analyticsVars, uploadVars>>

DispatchClearTransactions ==
    /\ Dispatching
    /\ state' = ClearTransactionsCase(state)
    /\ last' = [Dispatch("CLEAR_TRANSACTIONS") EXCEPT
                   !.toggledOn = {},
                   !.wiped = last.wiped \cup
                       {Signature(state.transactions[i]) : i \in
                           {j \in 1..Len(state.transactions) :
                               state.transactions[j].id \in last.toggledOn}}]
    /\ UNCHANGED <<repairVars, parseVars, engineVars, analyticsVars, uploadVars>>

DispatchClearAll ==
    /\ Dispatching
    /\ state' = ClearAllCase(state)
    /\ last' = DispatchEditing("CLEAR_ALL")
    /\ UNCHANGED <<repairVars, parseVars, engineVars, analyticsVars, uploadVars>>

InitReducer ==
    /\ state = initialState
    /\ last = Mounted
    /\ rIn = NoFragment /\ rOut = NoOutput /\ scan = NoScan
    /\ calls = NoCalls
    /\ pFile = NoFile /\ pResult = NoResult
    /\ engine = NoEngine /\ txns = <<>> /\ call = NoCall
    /\ ledger = <<>> /\ derived = NoAnalytics

NextReducer ==
    \/ DispatchLoadData
    \/ DispatchAddTransactions
    \/ DispatchCategorizeTransaction
    \/ DispatchToggleExclusion
    \/ DispatchToggleRepeatedExpenseExclusion
    \/ DispatchAddCategory
    \/ DispatchUpdateCategory
    \/ DispatchDeleteCategory
    \/ DispatchAddPattern
    \/ DispatchAddRule
    \/ DispatchDeleteRule
    \/ DispatchImportPreferences
    \/ DispatchClearTransactions
    \/ DispatchClearAll

SpecReducer == InitReducer /\ [][NextReducer]_vars

(***************************************************************************)
(* SpecUploads: up to MaxUploads calls of uploadFiles on the loaded        *)
(* application.  A call runs to its await, and runs on to its end in a     *)
(* later task, when parseFiles has settled; other calls may start or       *)
(* settle in between.                                                      *)
(***************************************************************************)
Outcomes == {upload.result : upload \in Uploads} \cup {Rejected}

\* What a call that holds no closure has captured.
NoCapture == [categories |-> <<>>, rules |-> <<>>, descriptionMappings |-> EmptyMap]

Awaiting == {c \in 1..Len(calls) : calls[c].at = "awaiting"}

StartUploadFiles ==
    /\ \E c \in 1..Len(calls) :
         /\ calls[c].at = "idle"
         /\ calls' = [calls EXCEPT ![c] =
                         [at |-> "awaiting",
                          captured |-> [categories |-> state.categories,
                                        rules |-> state.rules,
                                        descriptionMappings |-> state.descriptionMappings]]]
    /\ state' = UploadFilesStarted(state)
    /\ UNCHANGED <<last, repairVars, parseVars, engineVars, analyticsVars>>

SettleUploadFiles ==
    /\ \E c \in Awaiting, result \in Outcomes :
         /\ state' = UploadFilesSettled(state, calls[c].captured, result)
         /\ calls' = [calls EXCEPT ![c] = [at |-> "finished", captured |-> NoCapture]]
    /\ UNCHANGED <<last, repairVars, parseVars, engineVars, analyticsVars>>

InitUploads ==
    /\ state \in {LoadEffect(initialState, stored) : stored \in StoredData}
    /\ last = Did("INIT")
    /\ calls = [c \in 1..MaxUploads |-> [at |-> "idle", captured |-> NoCapture]]
    /\ rIn = NoFragment /\ rOut = NoOutput /\ scan = NoScan
    /\ pFile = NoFile /\ pResult = NoResult
    /\ engine = NoEngine /\ txns = <<>> /\ call = NoCall
    /\ ledger = <<>> /\ derived = NoAnalytics

NextUploads == StartUploadFiles \/ SettleUploadFiles

SpecUploads == InitUploads /\ [][NextUploads]_vars

(***************************************************************************)
(* SpecParse: parseFile applied to one of Files.                           *)
(***************************************************************************)
InitParse ==
    /\ pFile \in Files
    /\ pResult = NoResult
    /\ rIn = NoFragment /\ rOut = NoOutput /\ scan = NoScan
    /\ calls = NoCalls
    /\ state = initialState /\ last = Did("INIT")
    /\ engine = NoEngine /\ txns = <<>> /\ call = NoCall
    /\ ledger = <<>> /\ derived = NoAnalytics

NextParse == ParseFile

SpecParse == InitParse /\ [][NextParse]_vars

(***************************************************************************)
(* SpecRepair: convertOFXToXML applied to one of RepairInputs.             *)
(***************************************************************************)
InitRepair ==
    /\ rIn \in RepairInputs
    /\ rOut = NoOutput /\ scan = NoScan
    /\ calls = NoCalls
    /\ pFile = NoFile /\ pResult = NoResult
    /\ state = initialState /\ last = Did("INIT")
    /\ engine = NoEngine /\ txns = <<>> /\ call = NoCall
    /\ ledger = <<>> /\ derived = NoAnalytics

NextRepair == Repair

SpecRepair == InitRepair /\ [][NextRepair]_vars

(***************************************************************************)
(* SpecScan: convertOFXToXML run turn by turn on one of ScanInputs.  The   *)
(* function is synchronous: once called, its loops run on until it         *)
(* returns.                                                                *)
(***************************************************************************)
InitScan ==
    /\ rIn \in ScanInputs
    /\ rOut = NoOutput
    /\ scan = [NoScan EXCEPT !.at = "loop"]
    /\ calls = NoCalls
    /\ pFile = NoFile /\ pResult = NoResult
    /\ state = initialState /\ last = Did("INIT")
    /\ engine = NoEngine /\ txns = <<>> /\ call = NoCall
    /\ ledger = <<>> /\ derived = NoAnalytics

NextScan == ScanTurn \/ CloseTurn \/ ReturnXml

SpecScan == InitScan /\ [][NextScan]_vars /\ WF_vars(NextScan)

(***************************************************************************)
(* SpecEngine: categorize and batchCategorize called on an engine of       *)
(* Engines with an array of Charges.                                       *)
(***************************************************************************)
InitEngine ==
    /\ engine \in Engines
    /\ txns \in SeqsUpTo(Charges, MaxTxn) \ {<<>>}
    /\ call = NoCall
    /\ rIn = NoFragment /\ rOut = NoOutput /\ scan = NoScan
    /\ calls = NoCalls
    /\ pFile = NoFile /\ pResult = NoResult
    /\ state = initialState /\ last = Did("INIT")
    /\ ledger = <<>> /\ derived = NoAnalytics

NextEngine == Categorize \/ BatchCategorize

SpecEngine == InitEngine /\ [][NextEngine]_vars

(***************************************************************************)
(* SpecAnalytics: the computations of an AnalyticsCalculator built on one  *)
(* of Ledgers.                                                             *)
(***************************************************************************)
InitAnalytics ==
    /\ ledger \in Ledgers
    /\ derived = NoAnalytics
    /\ rIn = NoFragment /\ rOut = NoOutput /\ scan = NoScan
    /\ calls = NoCalls
    /\ pFile = NoFile /\ pResult = NoResult
    /\ state = initialState /\ last = Did("INIT")
    /\ engine = NoEngine /\ txns = <<>> /\ call = NoCall

NextAnalytics ==
    DetectRepeatedExpenses \/ ComputeMonthlySummaries \/ ComputeOverallStats

SpecAnalytics == InitAnalytics /\ [][NextAnalytics]_vars

(***************************************************************************)
(* Properties of the parsers, under SpecParse.                             *)
(***************************************************************************)
Result == pResult.result
Parsed == pResult.done
Transactions == Result.transactions

\* The file was read by parseQFX from well-formed tag soup.
ReadAsQfx == pFile.readable /\ detectFormat(pFile) = "QFX" /\ pFile.shape = "soup"
\* The file was read by parseCSV and the library completed.
ReadAsCsv == pFile.readable /\ detectFormat(pFile) = "CSV" /\ ~pFile.content.csv.fatal

\* C1: every transaction parseQFX or parseCSV returns has amount < 0 exactly
\* when its type is DEBIT and is CREDIT otherwise, whatever the format and
\* whatever TRNTYPE the file states.
C1_SignDecidesType ==
    Parsed =>
        \A i \in 1..Len(Transactions) :
            /\ Transactions[i].type \in {"DEBIT", "CREDIT"}
            /\ Transactions[i].amount < 0 <=> Transactions[i].type = "DEBIT"

\* A statement whose record says CREDIT with a negative TRNAMT was parsed
\* into a transaction.
C1_Witness ==
    /\ Parsed /\ ReadAsQfx
    /\ \E i \in 1..Len(Transactions) :
         /\ pFile.recs[Result.origins[i]].trnType = <<"CREDIT">>
         /\ pFile.recs[Result.origins[i]].amount.value.v < 0
         /\ Transactions[i].type = "DEBIT"

\* C2: parseCSV stores the negation of the numeric value of the row's Amount
\* (19.01 is stored as -19.01 with type DEBIT); parseQFX stores the value of
\* TRNAMT as it is.
C2_CsvNegatedQfxUnchanged ==
    Parsed =>
        \A i \in 1..Len(Transactions) :
            /\ ReadAsCsv =>
                 LET source == pFile.rows[Result.origins[i]].amount.value.v
                 IN  /\ Transactions[i].amount = 0 - source
                     /\ source = 1901 => Transactions[i].type = "DEBIT"
            /\ ReadAsQfx =>
                 Transactions[i].amount = pFile.recs[Result.origins[i]].amount.value.v

\* A row whose Amount is written 1,234.56 was stored as -1234.56.
C2_Witness ==
    /\ Parsed /\ ReadAsCsv
    /\ \E i \in 1..Len(Transactions) :
         /\ pFile.rows[Result.origins[i]].amount = AmountCell(123456, "grouped")
         /\ Transactions[i].amount = 0 - 123456

\* The entries of errors of one severity, in order.
OfSeverity(errors, severity) == SelectSeq(errors, LAMBDA e : e.severity = severity)

\* The file as it reads with no whitespace after any line.
Unindented == QfxFile(pFile.ext, pFile.recs, pFile.acct, <<>>, pFile.shape)

\* C5: parseQFX reads an indented and a non-indented file alike: whitespace
\* between a leaf's value and the next tag changes no field of any returned
\* transaction (description, amount, date and id are the same).
C5_LayoutIndependent ==
    (Parsed /\ ReadAsQfx) => Transactions = parseFile(Unindented).transactions

\* parseFile returned for a file the claim calls fatal: of unknown format,
\* without the <OFX> root, with markup the repair does not make well-formed,
\* or failed by the CSV library.
Fatal ==
    \/ pFile.readable /\ detectFormat(pFile) = "UNKNOWN"
    \/ pFile.readable /\ detectFormat(pFile) = "QFX"
       /\ pFile.shape \in {"rootless", "closed"}
    \/ pFile.readable /\ detectFormat(pFile) = "CSV" /\ pFile.content.csv.fatal

\* C6: parseFile never throws: whatever the file, it returns a result, and
\* an unknown format, a QFX file without <OFX>, a failed markup
\* reconstruction and a fatal CSV library error each give no transaction
\* and exactly one entry in errors, of severity error.
C6_NeverThrowsOneError ==
    Parsed =>
        /\ ~Result.threw
        /\ (Fatal \/ ~pFile.readable) =>
              /\ Transactions = <<>>
              /\ Len(Result.errors) = 1
              /\ Result.errors[1].severity = "error"

\* A file of unknown format was handed to parseFile.
C6_Witness ==
    /\ Parsed /\ pFile.readable /\ detectFormat(pFile) = "UNKNOWN"
    /\ Len(Result.errors) = 1

\* A data row lacks a required field (Trans. Date, Description, Amount).
Lacking(row) ==
    row.short \/ row.date.text = <<>> \/ row.description = <<>> \/ row.amount.text = <<>>

\* A data row is valid: all fields, a calendar date, a numeric amount.
ValidRow(row) == ~Lacking(row) /\ row.date.calendar /\ ~isNaN(row.amount.value)

RowsWhere(P(_)) == SelectSeq([k \in 1..Len(pFile.rows) |-> k], LAMBDA k : P(pFile.rows[k]))

\* The file is a CSV of the claim: every data row lacks a required field or
\* is valid.
LackingOrValid ==
    /\ Parsed /\ ReadAsCsv
    /\ \A k \in 1..Len(pFile.rows) : Lacking(pFile.rows[k]) \/ ValidRow(pFile.rows[k])

ValidRecord(r) == r.date.value.valid /\ ~isNaN(r.amount.value)

RecordsWhere(P(_)) == SelectSeq([k \in 1..Len(pFile.recs) |-> k], LAMBDA k : P(pFile.recs[k]))

\* C8: in parseQFX every STMTTRN marker has exactly one outcome, a
\* transaction or an error-level entry naming DTPOSTED or TRNAMT, and the
\* markers after a failing one are processed all the same; a file without a
\* marker gives exactly one warning entry and no error entry, and a file
\* whose markers all fail gives one extra error entry.
C8_OneOutcomePerMarker ==
    (Parsed /\ ReadAsQfx) =>
        LET failing == RecordsWhere(LAMBDA r : ~ValidRecord(r))
            perMarker == SelectSeq(Result.errors, LAMBDA e : e.field # "")
            summary == SelectSeq(Result.errors, LAMBDA e : e.field = "")
        IN  /\ Result.origins = RecordsWhere(ValidRecord)
            /\ Len(Transactions) + Len(perMarker) = Len(pFile.recs)
            /\ Len(perMarker) = Len(failing)
            /\ \A j \in 1..Len(perMarker) :
                 /\ perMarker[j].severity = "error"
                 /\ perMarker[j].field =
                        IF pFile.recs[failing[j]].date.value.valid
                        THEN "TRNAMT" ELSE "DTPOSTED"
            /\ pFile.recs = <<>> =>
                 /\ Len(Result.errors) = 1
                 /\ Result.errors[1].severity = "warning"
            /\ (pFile.recs # <<>> /\ Len(failing) = Len(pFile.recs)) =>
                 /\ Len(summary) = 1
                 /\ summary[1].severity = "error"
                 /\ Result.errors = perMarker \o summary
            /\ (pFile.recs # <<>> /\ Len(failing) < Len(pFile.recs)) =>
                 Result.errors = perMarker

\* A statement of two markers was parsed: the first fails on its date, the
\* second became a transaction.
C8_Witness ==
    /\ Parsed /\ ReadAsQfx
    /\ Len(pFile.recs) = 2
    /\ ~pFile.recs[1].date.value.valid /\ ValidRecord(pFile.recs[2])
    /\ Result.origins = <<2>>
    /\ Len(Result.errors) = 1

\* C9: parseCSV rejects every row whose Trans. Date is not a calendar date
\* written month/day/year (month 13, day 45, parts that are no numbers):
\* the row gives no transaction and exactly one entry, of severity error.
C9_NonCalendarDateRejected ==
    (Parsed /\ ReadAsCsv) =>
        \A k \in 1..Len(pFile.rows) :
            (~Lacking(pFile.rows[k]) /\ ~pFile.rows[k].date.calendar) =>
                /\ \A i \in 1..Len(Result.origins) : Result.origins[i] # k
                /\ Cardinality({j \in 1..Len(Result.errors) :
                                  /\ Result.errors[j].line = RowLine(k - 1)
                                  /\ Result.errors[j].severity = "error"}) = 1

(***************************************************************************)
(* Properties of the tag-soup repair, under SpecRepair.                    *)
(***************************************************************************)
\* C4: for a tag-soup fragment of nested containers and leaves without
\* closing tags (a leaf right before a sibling leaf included) the output of
\* convertOFXToXML is well-formed, every opening tag closed once and in
\* nested order, and gives the same extracted fields as the fragment
\* written fully closed.
C4_RepairedSoupWellFormed ==
    (rOut.done /\ rIn.form = "soup") =>
        LET doc == parseFromString(rOut.xml)
            closed == parseFromString(Render(rIn.tree, TRUE))
        IN  /\ ~doc.parsererror
            /\ ~closed.parsererror
            /\ Cardinality({i \in 1..Len(doc.toks) : doc.toks[i].k = "open"})
                 = Cardinality({i \in 1..Len(doc.toks) : doc.toks[i].k = "close"})
            /\ ExtractedFields(doc) = ExtractedFields(closed)

\* A fragment whose STMTTRN holds a NAME leaf right before a MEMO leaf was
\* repaired.
C4_Witness ==
    /\ rOut.done /\ rIn.form = "soup"
    /\ \E i \in 1..Len(rIn.tree.c) :
         /\ rIn.tree.c[i].k = "node"
         /\ Len(rIn.tree.c[i].c) = 2
         /\ rIn.tree.c[i].c[1] = Leaf("NAME", <<"x">>)
         /\ rIn.tree.c[i].c[2] = Leaf("MEMO", <<"y">>)
    /\ ExtractedFields(parseFromString(rOut.xml)).trn[1]
         = [name |-> <<"x">>, memo |-> <<"y">>]

\* C24: convertOFXToXML returns fully closed markup unchanged, a leaf that
\* has its closing tag in the input getting exactly one closing tag, and
\* applied to its own output it returns that output.
C24_ClosedMarkupUnchanged ==
    rOut.done =>
        /\ rIn.form = "closed" => rOut.xml = rIn.sgml
        /\ convertOFXToXML(rOut.xml) = rOut.xml

(***************************************************************************)
(* Properties of a run of convertOFXToXML, under SpecScan.                 *)
(***************************************************************************)
\* The tags of tagStack below its top are containers.
LeafOnlyOnTop ==
    \A k \in 1..(Len(scan.tagStack) - 1) : scan.tagStack[k] \in containerTags

\* C25: after every processed tag the stack of open tags holds at most one
\* tag that is not a container, and only on top; and when the function
\* returns the stack is empty and every container that was popped has had
\* its closing tag pushed on the result.
C25_StackDiscipline ==
    /\ LeafOnlyOnTop
    /\ scan.at = "returned" =>
          /\ scan.tagStack = <<>>
          /\ scan.unclosed = <<>>

\* Termination: for every text the function returns.
ScanReturns == <>(scan.at = "returned")

(***************************************************************************)
(* Properties of the application, under Spec.                              *)
(***************************************************************************)
\* C3: re-import is idempotent: the ids a file parses to are the same every
\* time, and ADD_TRANSACTIONS with a batch whose ids are all in
\* state.transactions already leaves state.transactions as it was, after
\* any sequence of actions.
C3_ReimportIdempotent ==
    (last.type = "ADD_TRANSACTIONS" /\ last.allPresent) => last.unchanged

\* ADD_TRANSACTIONS was dispatched with a batch of transactions all of which
\* were in state.transactions before.
C3_Witness ==
    /\ last.type = "ADD_TRANSACTIONS"
    /\ last.dispatched /\ last.allPresent /\ last.unchanged
    /\ state.transactions # <<>>

\* Two category values name the same category; the empty string and
\* undefined both stand for none.
SameCategory(a, b) == IF Truthy(b) THEN a = b ELSE ~Truthy(a)

\* C10: categorize returns the memory-table category for every transaction
\* whose description has an entry in the table, whatever enabled patterns
\* or legacy rules match the description.
C10_MemoryTableWins ==
    \A i \in 1..Len(state.transactions) :
        LET t == state.transactions[i]
        IN  t.description \in DOMAIN state.descriptionMappings =>
                SameCategory(categorize(state.categories, state.rules,
                                        state.descriptionMappings, t),
                             state.descriptionMappings[t.description])

(***************************************************************************)
(* Claims on the categorization engine (SpecEngine).                       *)
(***************************************************************************)
\* The transaction the latest categorize call was made on.
Categorized == txns[call.index]

\* No memory-table entry applies to the transaction categorize was called on.
NoTableEntry ==
    ~Truthy(MapGet(engine.descriptionMappings, Categorized.description))

\* A pattern text the RegExp constructor rejects: unbalanced parentheses.
Unbalanced(text) == Count(text, "(") # Count(text, ")")

\* The enabled category patterns that match the description, as
\* <<category index, pattern index>>.
MatchingPatterns(categories, description) ==
    {x \in UNION {{<<c, q>> : q \in 1..Len(categories[c].patterns)} :
                     c \in 1..Len(categories)} :
        LET pat == categories[x[1]].patterns[x[2]]
        IN  pat.enabled /\ ~Unbalanced(pat.pattern)
            /\ RegExpTest(pat.pattern, description)}

\* The enabled legacy rules that match the description, by index.
MatchingRules(rules, description) ==
    {r \in 1..Len(rules) :
        rules[r].enabled /\ ~Unbalanced(rules[r].pattern)
        /\ RegExpTest(rules[r].pattern, description)}

\* C11: when no memory-table entry applies, categorize returns the category
\* of the matching enabled pattern with the numerically lowest priority;
\* among matching patterns of equal priority the earliest-declared category
\* wins, and a disabled pattern never wins.
C11_LowestPriorityPatternWins ==
    (call.op = "categorize" /\ NoTableEntry) =>
        LET cats == engine.categories
            hits == MatchingPatterns(cats, Categorized.description)
            best == {x \in hits : \A y \in hits :
                        cats[x[1]].patterns[x[2]].priority
                            <= cats[y[1]].patterns[y[2]].priority}
        IN  hits # {} => call.returned = cats[Min({x[1] : x \in best})].id

\* categorize was called with no table entry on a description that an
\* enabled pattern of each category matches at the same priority, and
\* returned the first-declared category.
C11_Witness ==
    /\ call.op = "categorize" /\ NoTableEntry
    /\ \E x, y \in MatchingPatterns(engine.categories, Categorized.description) :
          /\ x[1] < y[1]
          /\ engine.categories[x[1]].patterns[x[2]].priority
                = engine.categories[y[1]].patterns[y[2]].priority
    /\ call.returned = engine.categories[1].id

\* C12: when no category pattern matches, categorize returns the category
\* of the matching enabled legacy rule with the numerically lowest
\* priority, declaration order deciding only between equal priorities.
C12_LegacyLowestPriorityWins ==
    (/\ call.op = "categorize" /\ NoTableEntry
     /\ MatchingPatterns(engine.categories, Categorized.description) = {}) =>
        LET hits == MatchingRules(engine.rules, Categorized.description)
            best == {r \in hits : \A q \in hits :
                        engine.rules[r].priority <= engine.rules[q].priority}
        IN  hits # {} => call.returned = engine.rules[Min(best)].categoryId

\* seq without its i-th element.
Without(seq, i) == SubSeq(seq, 1, i - 1) \o SubSeq(seq, i + 1, Len(seq))

\* C13: a pattern or legacy rule whose text does not compile is skipped:
\* categorize returns what it returns when that pattern or rule is absent.
C13_InvalidPatternSkipped ==
    call.op = "categorize" =>
        /\ \A c \in 1..Len(engine.categories) :
             \A q \in 1..Len(engine.categories[c].patterns) :
                Unbalanced(engine.categories[c].patterns[q].pattern) =>
                    call.returned =
                        categorize([engine.categories EXCEPT
                                       ![c].patterns = Without(@, q)],
                                   engine.rules, engine.descriptionMappings,
                                   Categorized)
        /\ \A r \in 1..Len(engine.rules) :
             Unbalanced(engine.rules[r].pattern) =>
                call.returned =
                    categorize(engine.categories, Without(engine.rules, r),
                               engine.descriptionMappings, Categorized)

\* categorize was called, with no table entry, on an engine whose first
\* category holds an enabled pattern that does not compile and would match
\* if its parentheses were dropped, and returned the category of a pattern
\* tried after it.
C13_Witness ==
    /\ call.op = "categorize" /\ NoTableEntry
    /\ \E q \in 1..Len(engine.categories[1].patterns) :
          LET pat == engine.categories[1].patterns[q]
          IN  pat.enabled /\ Unbalanced(pat.pattern)
              /\ RegExpTest(pat.pattern, Categorized.description)
    /\ call.returned = engine.categories[2].id

\* A transaction that is manually categorized or already carries a
\* categoryId.
Settled(t) == t.isManuallyCategorized \/ t.categoryId # NoCategory

\* C14: batchCategorize never changes the categoryId of a transaction that
\* is manually categorized or already carries a categoryId, and applying it
\* a second time changes no categoryId.
C14_BatchNonDestructiveIdempotent ==
    call.op = "batchCategorize" =>
        /\ \A i \in 1..Len(txns) :
             Settled(call.before[i]) =>
                txns[i].categoryId = call.before[i].categoryId
        /\ \A i \in 1..Len(txns) :
             batchCategorize(engine.categories, engine.rules,
                             engine.descriptionMappings, txns)[i].categoryId
                = txns[i].categoryId
        /\ call.count = 2 =>
             \A i \in 1..Len(txns) : txns[i].categoryId = call.before[i].categoryId

\* batchCategorize ran twice on an array holding a manually categorized
\* transaction without a categoryId, whose description a pattern matches,
\* next to one that the first run gave a category.
C14_Witness ==
    /\ call.op = "batchCategorize" /\ call.count = 2
    /\ \E i, j \in 1..Len(txns) :
          /\ txns[i].isManuallyCategorized /\ txns[i].categoryId = NoCategory
          /\ categorize(engine.categories, engine.rules,
                        engine.descriptionMappings, txns[i]) # NoCategory
          /\ ~txns[j].isManuallyCategorized /\ txns[j].categoryId = "dining"

\* C15: no core operation modifies a transaction object it is given: after
\* categorize or batchCategorize every transaction of the caller's array
\* has the field values it had before the call.
C15_InputsUnmodified == call.op # "none" => txns = call.before

(***************************************************************************)
(* Properties of the analytics, under SpecAnalytics.  A merchant group is  *)
(* taken from the ledger directly: the debit, non-excluded transactions    *)
(* whose description normalizes to the merchant.  Amounts are compared as  *)
(* the hundredths they are.                                                *)
(***************************************************************************)
Eligible(l) == {i \in 1..Len(l) : l[i].type = "DEBIT" /\ ~l[i].isExcluded}
Merchants(l) == {normalizeMerchant(l[i].description) : i \in Eligible(l)}
Members(l, merchant) ==
    {i \in Eligible(l) : normalizeMerchant(l[i].description) = merchant}
AbsCents(t) == IF t.amount < 0 THEN 0 - t.amount ELSE t.amount
AmountsOf(l, M) == {AbsCents(l[i]) : i \in M}

RECURSIVE TotalCents(_, _)
TotalCents(l, M) ==
    IF M = {} THEN 0
    ELSE LET i == CHOOSE i \in M : TRUE
         IN  AbsCents(l[i]) + TotalCents(l, M \ {i})

\* |a - mean| <= mean / 10 for every member a, the mean being total / n:
\* 10 * |n * a - total| <= total.
WithinTenPercent(l, M) ==
    \A i \in M :
        LET d == (Cardinality(M) * AbsCents(l[i])) - TotalCents(l, M)
        IN  10 * (IF d < 0 THEN 0 - d ELSE d) <= TotalCents(l, M)

EntriesFor(merchant) ==
    {k \in 1..Len(derived.repeatedExpenses) :
        derived.repeatedExpenses[k].merchantPattern = merchant}
IdsOf(entry) == {entry.transactionIds[j] : j \in 1..Len(entry.transactionIds)}

\* C16: detectRepeatedExpenses reports a merchant group exactly when it has
\* at least 2 debit, non-excluded transactions each of whose absolute
\* amounts is within 10% of the group's mean; a reported group is reported
\* whole, and no excluded or credit transaction is in any transactionIds.
C16_ReportedIffSimilar ==
    derived.op = "detectRepeatedExpenses" =>
        /\ \A merchant \in Merchants(ledger) :
             EntriesFor(merchant) # {}
                <=> /\ Cardinality(Members(ledger, merchant)) >= 2
                    /\ WithinTenPercent(ledger, Members(ledger, merchant))
        /\ \A k \in 1..Len(derived.repeatedExpenses) :
             LET entry == derived.repeatedExpenses[k]
             IN  /\ IdsOf(entry) =
                      {ledger[i].id : i \in Members(ledger, entry.merchantPattern)}
                 /\ \A i \in 1..Len(ledger) :
                      ledger[i].id \in IdsOf(entry) => i \in Eligible(ledger)

\* C17 as stated: two debits of one merchant of 100 and 115 are dropped,
\* three of 100, 109.99 and 91 are reported.
C17_AsStated ==
    derived.op = "detectRepeatedExpenses" =>
        \A merchant \in Merchants(ledger) :
            LET M == Members(ledger, merchant)
            IN  /\ (Cardinality(M) = 2 /\ AmountsOf(ledger, M) = {10000, 11500})
                      => EntriesFor(merchant) = {}
                /\ (Cardinality(M) = 3
                    /\ AmountsOf(ledger, M) = {10000, 10999, 9100})
                      => EntriesFor(merchant) # {}

\* C17: two debits of one merchant of 100 and 115 (mean 107.50, each 6.98%
\* from it) are reported as one entry of both; two of 91 and 115 (mean 103,
\* each 11.65% from it) are dropped entirely; three of 100, 109.99 and 91
\* are reported.
C17_PairOf100And115Reported ==
    derived.op = "detectRepeatedExpenses" =>
        \A merchant \in Merchants(ledger) :
            LET M == Members(ledger, merchant)
                Whole == \E k \in EntriesFor(merchant) :
                            IdsOf(derived.repeatedExpenses[k])
                               = {ledger[i].id : i \in M}
            IN  /\ (Cardinality(M) = 2 /\ AmountsOf(ledger, M) = {10000, 11500})
                      => Whole
                /\ (Cardinality(M) = 2 /\ AmountsOf(ledger, M) = {9100, 11500})
                      => /\ EntriesFor(merchant) = {}
                         /\ \A k \in 1..Len(derived.repeatedExpenses), i \in M :
                              ledger[i].id \notin IdsOf(derived.repeatedExpenses[k])
                /\ (Cardinality(M) = 3
                    /\ AmountsOf(ledger, M) = {10000, 10999, 9100})
                      => Whole

\* detectRepeatedExpenses ran on a ledger whose first merchant has debits of
\* 100 and 115 only, and returned an entry for it.
C17_Witness ==
    /\ derived.op = "detectRepeatedExpenses"
    /\ \E merchant \in Merchants(ledger) :
          /\ Cardinality(Members(ledger, merchant)) = 2
          /\ AmountsOf(ledger, Members(ledger, merchant)) = {10000, 11500}
          /\ EntriesFor(merchant) # {}

\* The days between the earliest and the latest member: the sum of the gaps
\* between consecutive members sorted by date.
SpanOf(l, M) ==
    LET days == {getTime(l[i].date) : i \in M}
    IN  (CHOOSE x \in days : \A y \in days : y <= x)
        - (CHOOSE x \in days : \A y \in days : x <= y)

\* C18: a reported entry is a likely subscription exactly when the average
\* gap between consecutive members sorted by date is within 25..35 days,
\* bounds included; estimatedMonthly is present exactly then, and is the
\* entry's averageAmount.
C18_SubscriptionIffMonthlyGaps ==
    derived.op = "detectRepeatedExpenses" =>
        \A k \in 1..Len(derived.repeatedExpenses) :
            LET entry == derived.repeatedExpenses[k]
                M == Members(ledger, entry.merchantPattern)
            IN  /\ entry.isLikelySubscription
                      <=> /\ SpanOf(ledger, M) >= 25 * (Cardinality(M) - 1)
                          /\ SpanOf(ledger, M) <= 35 * (Cardinality(M) - 1)
                /\ entry.estimatedMonthly # Undefined
                      <=> entry.isLikelySubscription
                /\ entry.isLikelySubscription
                      => entry.estimatedMonthly = entry.averageAmount

\* An entry of three members whose gaps of 36 and 24 days average 30 was
\* reported as a likely subscription with its estimatedMonthly.
C18_Witness ==
    /\ derived.op = "detectRepeatedExpenses"
    /\ \E k \in 1..Len(derived.repeatedExpenses) :
          LET entry == derived.repeatedExpenses[k]
              M == Members(ledger, entry.merchantPattern)
          IN  /\ entry.occurrences = 3 /\ SpanOf(ledger, M) = 60
              /\ \E i, j \in M : getTime(ledger[j].date) - getTime(ledger[i].date) = 36
              /\ entry.isLikelySubscription
              /\ entry.estimatedMonthly = entry.averageAmount

Descending(repeated) ==
    \A k \in 1..(Len(repeated) - 1) :
        DoubleLessEq(repeated[k + 1].totalAmount, repeated[k].totalAmount)

\* C19 as stated: the entries are in descending order of totalAmount,
\* occurrences counts the transactionIds, and totalAmount is averageAmount
\* times occurrences.
C19_AsStated ==
    derived.op = "detectRepeatedExpenses" =>
        /\ Descending(derived.repeatedExpenses)
        /\ \A k \in 1..Len(derived.repeatedExpenses) :
             LET entry == derived.repeatedExpenses[k]
             IN  /\ entry.occurrences = Len(entry.transactionIds)
                 /\ entry.totalAmount
                      = DoubleTimes(entry.averageAmount, entry.occurrences)

\* C19: the entries are in descending order of totalAmount, occurrences
\* counts the transactionIds, totalAmount is the sum of the members'
\* absolute amounts and averageAmount is totalAmount divided by occurrences.
C19_DescendingByTotalAmount ==
    derived.op = "detectRepeatedExpenses" =>
        /\ Descending(derived.repeatedExpenses)
        /\ \A k \in 1..Len(derived.repeatedExpenses) :
             LET entry == derived.repeatedExpenses[k]
                 members == SelectSeq(ledger,
                               LAMBDA t : t.id \in IdsOf(entry))
             IN  /\ entry.occurrences = Len(entry.transactionIds)
                 /\ entry.totalAmount
                      = ReduceSum([i \in 1..Len(members) |->
                                     MathAbs(DoubleOfCents(members[i].amount))])
                 /\ entry.averageAmount
                      = DoubleDivide(entry.totalAmount,
                                     DoubleOfInt(entry.occurrences))

\* Two merchants were reported, the one the ledger starts with after the
\* other, whose total is larger.
C19_Witness ==
    /\ derived.op = "detectRepeatedExpenses"
    /\ Len(derived.repeatedExpenses) = 2
    /\ ledger[1].id \in IdsOf(derived.repeatedExpenses[2])
    /\ DoubleLess(derived.repeatedExpenses[2].totalAmount,
                  derived.repeatedExpenses[1].totalAmount)

Months(l) == {format(l[i].date) : i \in 1..Len(l)}
CategoryKey(t) ==
    IF t.categoryId \in {NoCategory, ""} THEN "uncategorized" ELSE t.categoryId

\* C20: computeMonthlySummaries returns one summary per month of the
\* ledger, the months strictly ascending; a summary's totalDebits is the
\* sum of the amounts of the month's debit, non-excluded transactions, and
\* its categoryTotals hold, for each category of these transactions and no
\* other, the sum of their absolute amounts.
C20_MonthlySummaries ==
    derived.op = "computeMonthlySummaries" =>
        LET summaries == derived.monthlySummaries
        IN  /\ Len(summaries) = Cardinality(Months(ledger))
            /\ {summaries[k].month : k \in 1..Len(summaries)} = Months(ledger)
            /\ \A k \in 1..(Len(summaries) - 1) :
                 ComparesBefore(summaries[k].month, summaries[k + 1].month)
            /\ \A k \in 1..Len(summaries) :
                 LET counted ==
                         SelectSeq(ledger,
                                   LAMBDA t : /\ format(t.date) = summaries[k].month
                                              /\ t.type = "DEBIT" /\ ~t.isExcluded)
                     OfCategory(c) ==
                         SelectSeq(counted, LAMBDA t : CategoryKey(t) = c)
                 IN  /\ summaries[k].totalDebits
                          = ReduceSum([i \in 1..Len(counted) |->
                                         DoubleOfCents(counted[i].amount)])
                     /\ DOMAIN summaries[k].categoryTotals
                          = {CategoryKey(counted[i]) : i \in 1..Len(counted)}
                     /\ \A c \in DOMAIN summaries[k].categoryTotals :
                          summaries[k].categoryTotals[c]
                             = ReduceSum([i \in 1..Len(OfCategory(c)) |->
                                            MathAbs(DoubleOfCents(
                                                OfCategory(c)[i].amount))])

\* Summaries were computed for a ledger that holds a transaction of an
\* earlier month after one of a later month, and a credit and an excluded
\* transaction in a month that has a counted debit too.
C20_Witness ==
    /\ derived.op = "computeMonthlySummaries"
    /\ Len(derived.monthlySummaries) >= 2
    /\ \E i, j \in 1..Len(ledger) :
          i < j /\ ComparesBefore(format(ledger[j].date), format(ledger[i].date))
    /\ \E i, j, k \in 1..Len(ledger) :
          /\ ledger[i].type = "CREDIT" /\ ledger[j].isExcluded
          /\ k \in Eligible(ledger)
          /\ format(ledger[i].date) = format(ledger[k].date)
          /\ format(ledger[j].date) = format(ledger[k].date)

(***************************************************************************)
(* C21: computeOverallStats never divides by zero.  On a ledger with no    *)
(* transaction that is not excluded it returns monthCount = 0,             *)
(* averageMonthlyExpenses = 0 and no dateRange; on any other ledger        *)
(* monthCount is the number of distinct (year, month) pairs among the      *)
(* transactions not excluded and averageMonthlyExpenses is the returned    *)
(* totalDebits divided by monthCount.                                      *)
(***************************************************************************)
Counted(l) == {i \in 1..Len(l) : ~l[i].isExcluded}

C21_AverageOverDistinctMonths ==
    derived.op = "computeOverallStats" =>
        LET stats == derived.overallStats
            months == {<<ledger[i].date.y, ledger[i].date.m>> : i \in Counted(ledger)}
        IN  IF Counted(ledger) = {}
            THEN /\ stats.monthCount = 0
                 /\ stats.averageMonthlyExpenses = DoubleZero
                 /\ stats.dateRange = Null
            ELSE /\ stats.monthCount = Cardinality(months)
                 /\ stats.monthCount > 0
                 /\ stats.dateRange # Null
                 /\ stats.averageMonthlyExpenses
                        = DoubleDivide(stats.totalDebits, DoubleOfInt(stats.monthCount))

\* The statistics of a ledger that holds excluded transactions only.
C21_Witness ==
    /\ derived.op = "computeOverallStats"
    /\ ledger # <<>> /\ Counted(ledger) = {}
    /\ derived.overallStats.monthCount = 0

(***************************************************************************)
(* Properties of the reducer, under SpecReducer.                           *)
(***************************************************************************)
Signatures(st) == OrEmpty(st.preferences, "excludedTransactionSignatures")

Excluded(st) == {i \in 1..Len(st.transactions) : st.transactions[i].isExcluded}

\* C22: a transaction that ADD_TRANSACTIONS adds after CLEAR_TRANSACTIONS,
\* with the date, amount and description of a transaction that
\* TOGGLE_EXCLUSION had excluded before the clearing, has isExcluded true and
\* its id in excludedIds, whatever its accountId.
C22_ExclusionSurvivesClearing ==
    last.type = "ADD_TRANSACTIONS" =>
        \A i \in 1..Len(state.transactions) :
            Signature(state.transactions[i]) \in last.wiped =>
                /\ state.transactions[i].isExcluded
                /\ state.transactions[i].id \in state.excludedIds

\* C23: after DELETE_CATEGORY no transaction and no description mapping
\* refers to the deleted category.
C23_NoReferenceToDeleted ==
    last.type = "DELETE_CATEGORY" =>
        /\ \A i \in 1..Len(state.transactions) :
              state.transactions[i].categoryId # last.deleted
        /\ \A description \in DOMAIN state.descriptionMappings :
              state.descriptionMappings[description] # last.deleted

\* C26: the ids of state.transactions are pairwise distinct in every state
\* the reducer reaches.
C26_IdsPairwiseDistinct ==
    \A i, j \in 1..Len(state.transactions) :
        i # j => state.transactions[i].id # state.transactions[j].id

\* C27: in every state the reducer reaches, a transaction has isExcluded
\* true exactly when its signature is in
\* preferences.excludedTransactionSignatures.
C27_FlagIffSignatureListed ==
    \A i \in 1..Len(state.transactions) :
        state.transactions[i].isExcluded
            <=> InSeq(Signature(state.transactions[i]), Signatures(state))

\* C29: in every state reached from LOAD_DATA, state.categories is
\* state.preferences.categories and state.rules is state.preferences.rules.
C29_CategoriesAndRulesMirrored ==
    last.type # "INIT" =>
        /\ state.categories = state.preferences.categories
        /\ state.rules = state.preferences.rules

\* C28: in every state the reducer reaches, excludedIds holds exactly the
\* ids of the transactions whose isExcluded is true; and TOGGLE_EXCLUSION
\* dispatched twice in a row for one id leaves isExcluded of every
\* transaction and excludedIds as they were, and the stored signatures the
\* same signatures as before.
C28_ExcludedIdsMatchFlags ==
    /\ state.excludedIds = {state.transactions[i].id : i \in Excluded(state)}
    /\ last.original # NoState =>
          /\ state.transactions = last.original.transactions
          /\ state.excludedIds = last.original.excludedIds
          /\ {Signatures(state)[i] : i \in 1..Len(Signatures(state))}
               = {Signatures(last.original)[i] : i \in 1..Len(Signatures(last.original))}

\* C28 as stated: after the two dispatches the stored signature list is
\* the list it was.
C28_SignatureListRestored ==
    last.original # NoState => Signatures(state) = Signatures(last.original)

C28_Witness ==
    /\ last.original # NoState
    /\ Excluded(state) # {}
    /\ Len(Signatures(state)) > 0
    /\ Signatures(state) = Signatures(last.original)

(***************************************************************************)
(* Properties of concurrent uploads, under SpecUploads.                    *)
(***************************************************************************)
\* C30: however calls of uploadFiles interleave, state.isLoading is true
\* while a call has started and not finished, and false once every call
\* that started has finished.
C30_LoadingWhileAnyUploadRuns ==
    (\E c \in 1..Len(calls) : calls[c].at # "idle") =>
        (state.isLoading <=> Awaiting # {})

============================================================
